---- MODULE Spec2Model ----
(***************************************************************************)
(* Model of the weather dashboard's data pipeline (samthomson/weather):    *)
(*   - the queryFn of useWeatherData (src/src/hooks/useWeatherData.ts):    *)
(*     tag parsing, descending sort, de-duplication by timestamp, the PM   *)
(*     anomaly scan and the sensor inventory;                              *)
(*   - the fetch cycles that useQuery drives for the pages                 *)
(*     (src/src/pages/Index.tsx, src/src/pages/Weather.tsx).               *)
(*                                                                         *)
(* Strings that the code parses are sequences of one-character strings,    *)
(* so that parseFloat is computed, not assumed.  Numbers are held in       *)
(* tenths (21.4 is 214): the code only compares, multiplies by 5 and       *)
(* copies them, which is exact on tenths.                                  *)
(***************************************************************************)
EXTENDS Integers, Sequences, FiniteSets, TLC

VARIABLES
    pc,               \* position of the queryFn: "start", "fetch", "scan", "done"
    queries,          \* the filters handed to relay.query
    events,           \* what relay.query returned, in the returned order
    sorted,           \* readingEvents after the in-place sort
    idx,              \* position of the for..of loop in sorted
    readings,         \* WeatherReading[]
    flaggedReadings,  \* FlaggedReading[]
    seenTimestamps,   \* Set<number>
    allSensorTypes,   \* Set<string>, in insertion order
    previousPM1,      \* number | null
    previousPM25,
    previousPM10,
    detectedSensors,  \* DetectedSensors of the returned value
    stationMetadata,  \* WeatherStationMetadata | undefined
    page,             \* the page that is mounted: "Index" or "Weather"
    autoRefresh,      \* Weather.tsx: the autoRefresh state
    selectedStation,  \* Index.tsx: the selected station, "" for null
    stationsLoaded,   \* Index.tsx: useWeatherStations has returned its list
    cache,            \* the query cache: one query per query key
    inflight,         \* the relay.query calls that have not settled
    nextCycle,        \* the number of the next fetch cycle
    now,              \* Math.floor(Date.now() / 1000) as it was read last
    lastHourReadings, \* Index.tsx: the memoized readings of the last hour
    charts,           \* what WeatherChart has rendered, per title
    stationData,      \* data?.detectedSensors of the query of each station
    visible,          \* the three visible-sensor lists, kept in localStorage
    initialized       \* Index: the initialized state

queryVars == <<pc, queries, events, sorted, idx, readings, flaggedReadings,
               seenTimestamps, allSensorTypes, previousPM1, previousPM25,
               previousPM10, detectedSensors, stationMetadata>>

fetchVars == <<page, autoRefresh, selectedStation, stationsLoaded, cache,
               inflight, nextCycle>>

chartVars == <<now, lastHourReadings, charts>>

viewVars == <<stationData, visible, initialized>>

vars == <<queryVars, fetchVars, chartVars, viewVars>>

-----------------------------------------------------------------------------
(* JavaScript values that may or may not be a number are tagged, so that   *)
(* a number, NaN, undefined and null stay distinct and comparable.         *)
Num(n) == [t |-> "number", n |-> n]
NaN == [t |-> "NaN", n |-> 0]
Undefined == [t |-> "undefined", n |-> 0]
Null == [t |-> "null", n |-> 0]

IsNum(v) == v.t = "number"

-----------------------------------------------------------------------------
(* Bounds of the model.                                                    *)
MaxEvents == 3
MaxTime == 3
MaxCycles == 3

-----------------------------------------------------------------------------
(* Program constants.                                                      *)
KIND_READING == 4223
KIND_METADATA == 16158
SpikeFactor == 5
RetryLimit == 2

KNOWN_SENSORS == <<"temp", "humidity", "pm1", "pm25", "pm10", "air_quality",
                   "pressure", "light", "rain">>

IGNORED_TAGS == <<"a", "s", "e", "p", "d", "alt", "client">>

Includes(seq, x) == \E i \in 1..Len(seq) : seq[i] = x

-----------------------------------------------------------------------------
(* parseFloat on a string given as a sequence of characters: an optional   *)
(* sign, decimal digits, an optional fraction; the rest of the string is   *)
(* ignored; NaN when no digit starts the number.  The result is in tenths. *)
(* The strings of the model hold no white space, exponent or "Infinity"    *)
(* and at most one digit behind the point.                                 *)
Digits == <<"0", "1", "2", "3", "4", "5", "6", "7", "8", "9">>

IsDigit(c) == Includes(Digits, c)

DigitVal(c) == (CHOOSE i \in 1..Len(Digits) : Digits[i] = c) - 1

RECURSIVE DigitRun(_, _)
\* the longest run of digits of s that starts at position i
DigitRun(s, i) ==
    IF i <= Len(s) /\ IsDigit(s[i]) THEN <<s[i]>> \o DigitRun(s, i + 1) ELSE << >>

RECURSIVE DigitsValue(_)
DigitsValue(ds) ==
    IF ds = << >> THEN 0
    ELSE 10 * DigitsValue(SubSeq(ds, 1, Len(ds) - 1)) + DigitVal(ds[Len(ds)])

ParseFloat(s) ==
    LET neg == Len(s) >= 1 /\ s[1] = "-"
        start == IF Len(s) >= 1 /\ s[1] \in {"-", "+"} THEN 2 ELSE 1
        whole == DigitRun(s, start)
        dot == start + Len(whole)
        hasFrac == dot <= Len(s) /\ s[dot] = "."
        frac == IF hasFrac THEN DigitRun(s, dot + 1) ELSE << >>
        tenths == IF frac = << >> THEN 0 ELSE DigitVal(frac[1])
        mag == 10 * DigitsValue(whole) + tenths
    IN  IF whole = << >> /\ frac = << >> THEN NaN
        ELSE IF neg THEN Num(0 - mag) ELSE Num(mag)

-----------------------------------------------------------------------------
(* Objects are functions from their keys; obj[k] of a missing key is       *)
(* undefined.                                                              *)
Get(obj, k) == IF k \in DOMAIN obj THEN obj[k] ELSE Undefined

Put(obj, k, v) == [x \in (DOMAIN obj) \cup {k} |-> IF x = k THEN v ELSE obj[x]]

EmptyObj == [x \in {} |-> Undefined]

\* v || 0: the number itself unless v is undefined, NaN or 0
OrZero(v) == IF IsNum(v) /\ v.n # 0 THEN v.n ELSE 0

\* SetAdd with an array's push in place of the set's add
ArrayPush(seq, x) == Append(seq, x)

\* Set.add on a set kept in insertion order
SetAdd(seq, x) == IF Includes(seq, x) THEN seq ELSE Append(seq, x)

\* the field of the reading that a known tag name is stored in
FieldOf(name) ==
    CASE name = "temp" -> "temperature"
      [] OTHER -> name

-----------------------------------------------------------------------------
(* parseWeatherTags: a tag is <<name, value>> or <<name, value, model>>;    *)
(* the name and the model are only compared and copied, the value is       *)
(* parsed.                                                                 *)
\* Skipped with the test for a number left out
SkippedIgnoredOnly(name, numValue) == Includes(IGNORED_TAGS, name)

\* lines 63-66: the two continue statements
Skipped(name, numValue) == Includes(IGNORED_TAGS, name) \/ numValue = NaN

RECURSIVE ParseTagsFrom(_, _, _, _, _)
ParseTagsFrom(tags, i, reading, sensorTypes, sensorModels) ==
    IF i > Len(tags)
    THEN [reading |-> Put(reading, "sensorModels", sensorModels),
          sensorTypes |-> sensorTypes]
    ELSE LET tag == tags[i]
             name == tag[1]
             numValue == ParseFloat(tag[2])
             hasModel == Len(tag) >= 3 /\ tag[3] # ""
         IN  IF Skipped(name, numValue)
             THEN ParseTagsFrom(tags, i + 1, reading, sensorTypes, sensorModels)
             ELSE ParseTagsFrom(tags, i + 1,
                      Put(reading, FieldOf(name), numValue),
                      Append(sensorTypes, name),
                      IF hasModel THEN Put(sensorModels, name, tag[3])
                                  ELSE sensorModels)

parseWeatherTags(tags) == ParseTagsFrom(tags, 1, EmptyObj, << >>, EmptyObj)

-----------------------------------------------------------------------------
(* parseStationMetadata: the first tag of a name gives the field; a string *)
(* is kept as it is, the elevation is parsed.                              *)
Str(s) == [t |-> "string", s |-> s]

\* tags.findIndex(([name]) => name === key) + 1: 0 when there is no such tag
TagIndex(tags, key) ==
    IF \E i \in 1..Len(tags) : tags[i][1] = key
    THEN CHOOSE i \in 1..Len(tags) :
            tags[i][1] = key /\ \A j \in 1..(i - 1) : tags[j][1] # key
    ELSE 0

\* tag?.[1] of the first tag named key
TagString(tags, key) ==
    LET i == TagIndex(tags, key)
    IN  IF i = 0 \/ Len(tags[i]) < 2 THEN Undefined ELSE Str(tags[i][2])

\* elevationTag ? parseFloat(elevationTag[1]) : undefined
Elevation(tags) ==
    LET i == TagIndex(tags, "elevation")
    IN  IF i = 0 THEN Undefined
        ELSE IF Len(tags[i]) < 2 THEN NaN
        ELSE ParseFloat(tags[i][2])

RECURSIVE SensorsOf(_)
\* tags.filter(([name]) => name === 'sensor').map(([, sensor]) => sensor)
SensorsOf(tags) ==
    IF tags = << >> THEN << >>
    ELSE IF tags[1][1] = "sensor"
         THEN <<IF Len(tags[1]) < 2 THEN Undefined ELSE Str(tags[1][2])>>
                 \o SensorsOf(Tail(tags))
         ELSE SensorsOf(Tail(tags))

parseStationMetadata(tags) ==
    [name |-> TagString(tags, "name"),
     location |-> TagString(tags, "location"),
     elevation |-> Elevation(tags),
     sensors |-> SensorsOf(tags)]

-----------------------------------------------------------------------------
(* readingEvents.sort((a, b) => b.created_at - a.created_at): a stable     *)
(* sort, descending by created_at.                                         *)
RECURSIVE InsertDescUnstable(_, _)
\* InsertDesc with the comparison strict: equal keys change places
InsertDescUnstable(s, e) ==
    IF s = << >> THEN <<e>>
    ELSE IF s[Len(s)].created_at - e.created_at > 0
         THEN Append(s, e)
         ELSE Append(InsertDescUnstable(SubSeq(s, 1, Len(s) - 1), e), s[Len(s)])

RECURSIVE InsertDesc(_, _)
\* e put into the descending sequence s behind every element that must not
\* come after it (equal keys keep their order)
InsertDesc(s, e) ==
    IF s = << >> THEN <<e>>
    ELSE IF s[Len(s)].created_at - e.created_at >= 0
         THEN Append(s, e)
         ELSE Append(InsertDesc(SubSeq(s, 1, Len(s) - 1), e), s[Len(s)])

\* SortDesc with the sort left out
SortOmitted(s) == s

RECURSIVE SortDesc(_)
SortDesc(s) ==
    IF s = << >> THEN << >>
    ELSE InsertDesc(SortDesc(SubSeq(s, 1, Len(s) - 1)), s[Len(s)])

\* events.find(e => e.kind === 16158), parsed when there is one
MetadataOf(evs) ==
    IF \E i \in 1..Len(evs) : evs[i].kind = KIND_METADATA
    THEN LET i == CHOOSE i \in 1..Len(evs) :
                     /\ evs[i].kind = KIND_METADATA
                     /\ \A j \in 1..(i - 1) : evs[j].kind # KIND_METADATA
         IN  parseStationMetadata(evs[i].tags)
    ELSE Undefined

RECURSIVE Filter(_, _)
\* events.filter(e => e.kind === kind)
Filter(s, kind) ==
    IF s = << >> THEN << >>
    ELSE IF s[1].kind = kind THEN <<s[1]>> \o Filter(Tail(s), kind)
         ELSE Filter(Tail(s), kind)

-----------------------------------------------------------------------------
(* The anomaly check of one PM channel.                                    *)
\* IsAnomaly with a factor of 10 in place of SpikeFactor
IsAnomalyTenfold(previous, value) ==
    previous # Null /\ previous.n > 0 /\ value > previous.n * 10

\* IsAnomaly with >= in place of >
IsAnomalyAtLeast(previous, value) ==
    previous # Null /\ previous.n > 0 /\ value >= previous.n * SpikeFactor

IsAnomaly(previous, value) ==
    previous # Null /\ previous.n > 0 /\ value > previous.n * SpikeFactor

Flag(sensor, value, event) ==
    [sensor |-> sensor, value |-> value, timestamp |-> event.created_at,
     eventId |-> event.id]

\* Checked with the flagged value left in the reading
CheckedKept(previous, value) == value

\* the value of the channel that is stored in the reading
Checked(previous, value) == IF IsAnomaly(previous, value) THEN 0 ELSE value

\* flaggedReadings.push(...) when the value is an anomaly
Pushed(flagged, previous, value, sensor, event) ==
    IF IsAnomaly(previous, value) THEN Append(flagged, Flag(sensor, value, event))
    ELSE flagged

\* Updated with >= in place of >
UpdatedNonNegative(previous, stored) == IF stored >= 0 THEN Num(stored) ELSE previous

\* if (pmValue > 0) previous = pmValue
Updated(previous, stored) == IF stored > 0 THEN Num(stored) ELSE previous

\* Materialize with the PM fields left as the parsed reading has them
MaterializeParsed(parsed, pm1Value, pm25Value, pm10Value, event) ==
    LET fixed == {"temperature", "humidity", "timestamp", "eventId"}
    IN  [k \in (DOMAIN parsed) \cup fixed |->
            CASE k = "temperature" -> Get(parsed, "temperature")
              [] k = "humidity" -> Get(parsed, "humidity")
              [] k = "timestamp" -> Num(event.created_at)
              [] k = "eventId" -> Num(event.id)
              [] OTHER -> parsed[k]]

\* the object pushed to readings: the parsed reading with the fixed fields
\* written over it
Materialize(parsed, pm1Value, pm25Value, pm10Value, event) ==
    LET fixed == {"temperature", "humidity", "pm1", "pm25", "pm10", "timestamp",
                  "eventId"}
    IN  [k \in (DOMAIN parsed) \cup fixed |->
            CASE k = "temperature" -> Get(parsed, "temperature")
              [] k = "humidity" -> Get(parsed, "humidity")
              [] k = "pm1" -> Num(pm1Value)
              [] k = "pm25" -> Num(pm25Value)
              [] k = "pm10" -> Num(pm10Value)
              [] k = "timestamp" -> Num(event.created_at)
              [] k = "eventId" -> Num(event.id)
              [] OTHER -> parsed[k]]

RECURSIVE AddAll(_, _)
\* sensorTypes.forEach(s => allSensorTypes.add(s))
AddAll(set, names) ==
    IF names = << >> THEN set ELSE AddAll(SetAdd(set, names[1]), Tail(names))

\* Seen with the test never succeeding
SeenNever(seen, created_at) == created_at \in {}

\* seenTimestamps.has(event.created_at)
Seen(seen, created_at) == created_at \in seen

\* parsed && Object.keys(parsed).length > 0
NonEmpty(parsed) == Cardinality(DOMAIN parsed) > 0

\* PreviousFor with every channel compared against previousPM25
PreviousForShared(st, c) == st.previousPM25

\* the last valid value that the check of channel c reads
PreviousFor(st, c) ==
    CASE c = "pm1" -> st.previousPM1
      [] c = "pm25" -> st.previousPM25
      [] c = "pm10" -> st.previousPM10

(* One iteration of the for..of loop over sorted: st holds the variables   *)
(* the loop reads and writes.                                              *)
ScanEvent(st, event) ==
    IF Seen(st.seenTimestamps, event.created_at) THEN st
    ELSE
    LET p == parseWeatherTags(event.tags)
        parsed == p.reading
        types == AddAll(st.allSensorTypes, p.sensorTypes)
    IN  IF ~NonEmpty(parsed)
        THEN [st EXCEPT !.allSensorTypes = types]
        ELSE
        LET pm1 == OrZero(Get(parsed, "pm1"))
            pm25 == OrZero(Get(parsed, "pm25"))
            pm10 == OrZero(Get(parsed, "pm10"))
            prev1 == PreviousFor(st, "pm1")
            prev25 == PreviousFor(st, "pm25")
            prev10 == PreviousFor(st, "pm10")
            f1 == Pushed(st.flaggedReadings, prev1, pm1, "PM1", event)
            f2 == Pushed(f1, prev25, pm25, "PM2.5", event)
            f3 == Pushed(f2, prev10, pm10, "PM10", event)
            pm1Value == Checked(prev1, pm1)
            pm25Value == Checked(prev25, pm25)
            pm10Value == Checked(prev10, pm10)
        IN  [readings |-> Append(st.readings,
                 Materialize(parsed, pm1Value, pm25Value, pm10Value, event)),
             flaggedReadings |-> f3,
             seenTimestamps |-> st.seenTimestamps \cup {event.created_at},
             allSensorTypes |-> types,
             previousPM1 |-> Updated(st.previousPM1, pm1Value),
             previousPM25 |-> Updated(st.previousPM25, pm25Value),
             previousPM10 |-> Updated(st.previousPM10, pm10Value)]

\* the loop variables as declared before the loop
ScanStart ==
    [readings |-> << >>, flaggedReadings |-> << >>, seenTimestamps |-> {},
     allSensorTypes |-> << >>, previousPM1 |-> Null, previousPM25 |-> Null,
     previousPM10 |-> Null]

RECURSIVE ScanAll(_, _)
\* the whole loop over the events s, from the loop variables st
ScanAll(st, s) == IF s = << >> THEN st ELSE ScanAll(ScanEvent(st, s[1]), Tail(s))

RECURSIVE SelectSeq2(_, _)
\* Array.from(allSensorTypes).filter(s => KNOWN_SENSORS.includes(s) = known)
SelectSeq2(names, known) ==
    IF names = << >> THEN << >>
    ELSE IF Includes(KNOWN_SENSORS, names[1]) = known
         THEN <<names[1]>> \o SelectSeq2(Tail(names), known)
         ELSE SelectSeq2(Tail(names), known)

Categorize(types) ==
    [supported |-> SelectSeq2(types, TRUE),
     unsupported |-> SelectSeq2(types, FALSE),
     all |-> types]

NoSensors == [supported |-> << >>, unsupported |-> << >>, all |-> << >>]

\* the components of Index that have a visible-sensor list
Components == {"LastHour", "24Hour", "Table"}

\* useLocalStorage(..., []): the lists before anything is stored
NoneVisible == [c \in Components |-> << >>]

\* the query cache before any query has data
NoStationData == [a \in {"", "A", "B"} |-> Undefined]

\* the readings and flagged readings that a run of the scan gives for the
\* events evs
Run(evs) == ScanAll(ScanStart, SortDesc(Filter(evs, KIND_READING)))

\* what the queryFn returns for the events evs, computed in one piece
Output(evs) ==
    LET st == Run(evs)
    IN  [readings |-> st.readings, flaggedReadings |-> st.flaggedReadings,
         stationMetadata |-> MetadataOf(evs),
         detectedSensors |-> Categorize(st.allSensorTypes)]

-----------------------------------------------------------------------------
(* WeatherChart (src/src/components/WeatherChart.tsx, lines 232-540): the   *)
(* five series of a chart.  The charts are modelled for metric units,      *)
(* where convertTemp returns its argument.                                 *)
HourlySlots == 24
MinuteSlots == 60
OneHour == 3600
OneMinute == 60
HourlyTolerance == 1800
MinuteTolerance == 30

\* the titles WeatherChart is rendered with: the two charts of Index.tsx and
\* the chart of Weather.tsx, which has no title
Titles == {"Last Hour", "Last 24 Hours", ""}

\* nothing rendered yet
NotRendered == [kind |-> "none"]

NoCharts == [t \in Titles |-> NotRendered]

\* lines 233-241: the card shown for an empty list
EmptyCard == [kind |-> "empty"]

Abs(x) == IF x < 0 THEN 0 - x ELSE x

\* convertTemp(celsius) for units = 'metric'
ConvertTemp(celsius) == celsius

\* the time slots: count slots, spacing seconds apart, the last one at t
TimeSlots(t, count, spacing) ==
    [k \in 1..count |-> t - (count - k) * spacing]

\* Near with <= in place of <
NearInclusive(r, ts, tolerance) == Abs(r.timestamp.n - ts) <= tolerance

\* Math.abs(r.timestamp - ts) < tolerance
Near(r, ts, tolerance) == Abs(r.timestamp.n - ts) < tolerance

\* FindReading with the reading nearest to ts chosen among those within the
\* tolerance
FindClosest(data, ts, tolerance) ==
    LET is == {i \in 1..Len(data) : Abs(data[i].timestamp.n - ts) < tolerance}
    IN  IF is = {} THEN 0
        ELSE CHOOSE i \in is :
                \A j \in is :
                   \/ Abs(data[i].timestamp.n - ts) < Abs(data[j].timestamp.n - ts)
                   \/ /\ Abs(data[i].timestamp.n - ts) = Abs(data[j].timestamp.n - ts)
                      /\ i <= j

\* data.find(r => Math.abs(r.timestamp - ts) < tolerance): the position of
\* the first such reading, 0 when there is none
FindReading(data, ts, tolerance) ==
    LET is == {i \in 1..Len(data) : Near(data[i], ts, tolerance)}
    IN  IF is = {} THEN 0 ELSE CHOOSE i \in is : \A j \in is : i <= j

\* ZeroAsNull with the value returned as it is
ZeroKept(v) == v

\* reading.pm1 === 0 ? null : reading.pm1
ZeroAsNull(v) == IF v = Num(0) THEN Null ELSE v

\* the value of a series for a reading
SeriesValue(reading, series) ==
    CASE series = "temperature" -> ConvertTemp(Get(reading, "temperature"))
      [] series = "humidity" -> Get(reading, "humidity")
      [] OTHER -> ZeroAsNull(Get(reading, series))

Series == {"temperature", "humidity", "pm1", "pm25", "pm10"}

\* NoReading with 0 in place of null
NoReadingAsZero == Num(0)

\* reading ? ... : null: the entry of a slot without a reading
NoReading == Null

\* lines 257-357: the series of a grid, null for a slot without a reading
Grid(data, t, count, spacing, tolerance) ==
    LET timeSlots == TimeSlots(t, count, spacing)
    IN  [kind |-> "grid", timeSlots |-> timeSlots,
         data |-> [s \in Series |->
                     [k \in 1..count |->
                        LET i == FindReading(data, timeSlots[k], tolerance)
                        IN  IF i = 0 THEN NoReading
                            ELSE SeriesValue(data[i], s)]]]

\* lines 358-376: the series of the readings as they are, oldest first
Fallback(data) ==
    LET reversedData == [k \in 1..Len(data) |-> data[Len(data) + 1 - k]]
    IN  [kind |-> "list",
         timeSlots |-> [k \in 1..Len(data) |-> reversedData[k].timestamp.n],
         data |-> [s \in Series |->
                     [k \in 1..Len(data) |-> SeriesValue(reversedData[k], s)]]]

WeatherChart(data, title, t) ==
    IF Len(data) = 0 THEN EmptyCard
    ELSE IF title = "Last 24 Hours"
         THEN Grid(data, t, HourlySlots, OneHour, HourlyTolerance)
    ELSE IF title = "Last Hour"
         THEN Grid(data, t, MinuteSlots, OneMinute, MinuteTolerance)
    ELSE Fallback(data)

\* Index.tsx 364-378: readings.filter(r => r.timestamp >= oneHourAgo)
LastHour(data, t) == SelectSeq(data, LAMBDA r : r.timestamp.n >= t - OneHour)

-----------------------------------------------------------------------------
(* The events a query may return.  The value strings cover a baseline (2), *)
(* five times the baseline (10), just above it (11), zero, a negative      *)
(* number and a string that is no number.                                  *)
S_2 == <<"2">>
S_10 == <<"1", "0">>
S_11 == <<"1", "1">>
S_0 == <<"0">>
S_neg == <<"-", "1">>
S_temp == <<"2", "1", ".", "4">>
S_abc == <<"a", "b", "c">>

TagLists ==
    { << <<"e", S_abc>>, <<"temp", S_abc>> >>,
      << <<"temp", S_temp>>, <<"pm1", S_2>>, <<"pm25", S_2, "PMS5003">>,
         <<"pm10", S_2>> >>,
      << <<"pm1", S_11>>, <<"pm25", S_10>>, <<"wind", S_2>> >>,
      << <<"pm1", S_0>>, <<"pm25", S_11>>, <<"pm10", S_neg>> >> }

Bodies ==
    [kind : {KIND_READING}, tags : TagLists]
        \cup {[kind |-> KIND_METADATA, tags |-> << <<"name", S_abc>> >>]}

Times == 1..MaxTime

\* the list a query returns: the bodies and times f chosen for n events, the
\* event id being the position in the returned list
EventList(n, f) ==
    [i \in 1..n |-> [id |-> i, kind |-> f[i][1].kind, created_at |-> f[i][2],
                     tags |-> f[i][1].tags]]

-----------------------------------------------------------------------------
(* The queryFn of useWeatherData, from the return of relay.query on.       *)
Init ==
    /\ \E n \in 0..MaxEvents :
          \E f \in [1..n -> Bodies \X Times] : events = EventList(n, f)
    /\ pc = "fetch"
    /\ sorted = << >>
    /\ idx = 1
    /\ readings = << >>
    /\ flaggedReadings = << >>
    /\ seenTimestamps = {}
    /\ allSensorTypes = << >>
    /\ previousPM1 = Null
    /\ previousPM25 = Null
    /\ previousPM10 = Null
    /\ detectedSensors = NoSensors
    /\ stationMetadata = Undefined
    /\ queries = << >>
    /\ now = 0
    /\ lastHourReadings = << >>
    /\ charts = NoCharts
    /\ stationData = NoStationData
    /\ visible = NoneVisible
    /\ initialized = FALSE
    /\ page = "none"
    /\ autoRefresh = FALSE
    /\ selectedStation = ""
    /\ stationsLoaded = FALSE
    /\ cache = << >>
    /\ inflight = {}
    /\ nextCycle = 0

\* the loop variables as they are
LoopVars ==
    [readings |-> readings, flaggedReadings |-> flaggedReadings,
     seenTimestamps |-> seenTimestamps, allSensorTypes |-> allSensorTypes,
     previousPM1 |-> previousPM1, previousPM25 |-> previousPM25,
     previousPM10 |-> previousPM10]

\* Declared with the three baselines living outside the queryFn
DeclaredOutside ==
    [ScanStart EXCEPT !.previousPM1 = previousPM1, !.previousPM25 = previousPM25,
                      !.previousPM10 = previousPM10]

\* lines 196-202: the loop variables are declared inside the queryFn, new for
\* every call of it
Declared == ScanStart

\* lines 182-202: the events are split by kind, the readings sorted, the
\* loop variables declared
Sort ==
    /\ pc = "fetch"
    /\ sorted' = SortDesc(Filter(events, KIND_READING))
    /\ idx' = 1
    /\ readings' = Declared.readings
    /\ flaggedReadings' = Declared.flaggedReadings
    /\ seenTimestamps' = Declared.seenTimestamps
    /\ allSensorTypes' = Declared.allSensorTypes
    /\ previousPM1' = Declared.previousPM1
    /\ previousPM25' = Declared.previousPM25
    /\ previousPM10' = Declared.previousPM10
    /\ stationMetadata' = MetadataOf(events)
    /\ pc' = "scan"
    /\ UNCHANGED <<queries, events, detectedSensors, fetchVars, chartVars, viewVars>>

\* lines 204-275: one iteration of the loop
Scan ==
    /\ pc = "scan"
    /\ idx <= Len(sorted)
    /\ LET st == ScanEvent(LoopVars, sorted[idx])
       IN  /\ readings' = st.readings
           /\ flaggedReadings' = st.flaggedReadings
           /\ seenTimestamps' = st.seenTimestamps
           /\ allSensorTypes' = st.allSensorTypes
           /\ previousPM1' = st.previousPM1
           /\ previousPM25' = st.previousPM25
           /\ previousPM10' = st.previousPM10
    /\ idx' = idx + 1
    /\ UNCHANGED <<pc, queries, events, sorted, detectedSensors, stationMetadata,
                   fetchVars, chartVars, viewVars>>

\* lines 277-287: the sensors are categorized and the result returned
Return ==
    /\ pc = "scan"
    /\ idx > Len(sorted)
    /\ detectedSensors' = Categorize(allSensorTypes)
    /\ pc' = "done"
    /\ UNCHANGED <<queries, events, sorted, idx, readings, flaggedReadings,
                   seenTimestamps, allSensorTypes, previousPM1, previousPM25,
                   previousPM10, stationMetadata, fetchVars, chartVars, viewVars>>

Next == Sort \/ Scan \/ Return

Spec == Init /\ [][Next]_vars

\* lines 140-180: the next fetch cycle calls the queryFn again and
\* relay.query returns the same events; the value returned before is still
\* the query's data
Again ==
    /\ pc = "done"
    /\ pc' = "fetch"
    /\ UNCHANGED <<queries, events, sorted, idx, readings, flaggedReadings,
                   seenTimestamps, allSensorTypes, previousPM1, previousPM25,
                   previousPM10, detectedSensors, stationMetadata, fetchVars, chartVars, viewVars>>

NextCycles == Sort \/ Scan \/ Return \/ Again

\* The queryFn called cycle after cycle on the same events.
SpecCycles == Init /\ [][NextCycles]_vars

\* The same queryFn on lists of reading events with distinct timestamps,
\* returned oldest first.
InitDistinct ==
    /\ \E n \in 0..MaxEvents :
          \E b \in [1..n -> TagLists] :
             events = EventList(n, [i \in 1..n |->
                          <<[kind |-> KIND_READING, tags |-> b[i]], i>>])
    /\ pc = "fetch"
    /\ sorted = << >>
    /\ idx = 1
    /\ readings = << >>
    /\ flaggedReadings = << >>
    /\ seenTimestamps = {}
    /\ allSensorTypes = << >>
    /\ previousPM1 = Null
    /\ previousPM25 = Null
    /\ previousPM10 = Null
    /\ detectedSensors = NoSensors
    /\ stationMetadata = Undefined
    /\ queries = << >>
    /\ now = 0
    /\ lastHourReadings = << >>
    /\ charts = NoCharts
    /\ stationData = NoStationData
    /\ visible = NoneVisible
    /\ initialized = FALSE
    /\ page = "none"
    /\ autoRefresh = FALSE
    /\ selectedStation = ""
    /\ stationsLoaded = FALSE
    /\ cache = << >>
    /\ inflight = {}
    /\ nextCycle = 0

SpecDistinct == InitDistinct /\ [][Next]_vars

-----------------------------------------------------------------------------
(* The queryFn on a single event whose tags are any list of up to MaxTags  *)
(* tags: a reading event with known, unknown, ignored and non-numeric      *)
(* tags, with and without a model, one of them an unknown sensor that has  *)
(* the name of a field of WeatherReading, or a metadata event.             *)
MaxTags == 4

S_999 == <<"9", "9", "9">>

ReadingTags ==
    { <<"temp", S_temp>>, <<"temp", S_abc>>, <<"pm25", S_999>>,
      <<"pm25", S_999, "PMS5003">>, <<"pm25", S_2, "SDS011">>, <<"pm25", S_0, "">>,
      <<"e", S_abc>>, <<"e", S_2, "PMS5003">>, <<"wind", S_2>>,
      <<"timestamp", S_2>> }

MetadataTags ==
    { <<"elevation", S_0>>, <<"elevation", S_abc>>, <<"elevation", S_temp>>,
      <<"name", S_abc>>, <<"sensor", S_abc>> }

InitTags ==
    /\ \E n \in 0..MaxTags :
          \/ \E f \in [1..n -> ReadingTags] :
                events = <<[id |-> 1, kind |-> KIND_READING, created_at |-> 1,
                            tags |-> f]>>
          \/ \E f \in [1..n -> MetadataTags] :
                events = <<[id |-> 1, kind |-> KIND_METADATA, created_at |-> 1,
                            tags |-> f]>>
    /\ pc = "fetch"
    /\ sorted = << >>
    /\ idx = 1
    /\ readings = << >>
    /\ flaggedReadings = << >>
    /\ seenTimestamps = {}
    /\ allSensorTypes = << >>
    /\ previousPM1 = Null
    /\ previousPM25 = Null
    /\ previousPM10 = Null
    /\ detectedSensors = NoSensors
    /\ stationMetadata = Undefined
    /\ queries = << >>
    /\ now = 0
    /\ lastHourReadings = << >>
    /\ charts = NoCharts
    /\ stationData = NoStationData
    /\ visible = NoneVisible
    /\ initialized = FALSE
    /\ page = "none"
    /\ autoRefresh = FALSE
    /\ selectedStation = ""
    /\ stationsLoaded = FALSE
    /\ cache = << >>
    /\ inflight = {}
    /\ nextCycle = 0

SpecTags == InitTags /\ [][Next]_vars

-----------------------------------------------------------------------------
(* The charts of a page.  The queryFn runs on up to MaxChartEvents reading *)
(* events with distinct timestamps, returned newest first; the timestamps  *)
(* lie at, just inside, exactly at and outside the tolerances of both      *)
(* grids.  The page renders the charts when the queryFn has returned, and  *)
(* renders them again as time passes.                                      *)
MaxChartEvents == 2
MaxTicks == 1

\* the time of the first render, in seconds
FirstRender == 90000

\* the seconds that pass between two renders of the model
TickStep == 30

\* how long before the first render an event was created
Offsets == {0, 29, 30, 1800, 1860, 3600, 5400, 82800, 86400}

\* the charts a page with the readings data renders at time t: none while
\* there is no current reading
Rendered(data, lastHour, t) ==
    [title \in Titles |->
        IF Len(data) = 0 THEN NotRendered
        ELSE WeatherChart(IF title = "Last Hour" THEN lastHour ELSE data, title, t)]

InitChart ==
    /\ \E n \in 0..MaxChartEvents :
          \E f \in [1..n -> TagLists \X Offsets] :
             /\ \A i, j \in 1..n : i < j => f[i][2] < f[j][2]
             /\ events = [i \in 1..n |->
                            [id |-> i, kind |-> KIND_READING,
                             created_at |-> FirstRender - f[i][2],
                             tags |-> f[i][1]]]
    /\ pc = "fetch"
    /\ sorted = << >>
    /\ idx = 1
    /\ readings = << >>
    /\ flaggedReadings = << >>
    /\ seenTimestamps = {}
    /\ allSensorTypes = << >>
    /\ previousPM1 = Null
    /\ previousPM25 = Null
    /\ previousPM10 = Null
    /\ detectedSensors = NoSensors
    /\ stationMetadata = Undefined
    /\ queries = << >>
    /\ now = FirstRender
    /\ lastHourReadings = << >>
    /\ charts = NoCharts
    /\ stationData = NoStationData
    /\ visible = NoneVisible
    /\ initialized = FALSE
    /\ page = "none"
    /\ autoRefresh = FALSE
    /\ selectedStation = ""
    /\ stationsLoaded = FALSE
    /\ cache = << >>
    /\ inflight = {}
    /\ nextCycle = 0

\* the queryFn has returned: the page memoizes the readings of the last hour
\* and renders its charts
Render ==
    /\ pc = "done"
    /\ charts = NoCharts
    /\ Len(readings) > 0
    /\ lastHourReadings' = LastHour(readings, now)
    /\ charts' = Rendered(readings, lastHourReadings', now)
    /\ UNCHANGED <<now, queryVars, fetchVars, viewVars>>

\* Index.tsx 341-348: the tick of the interval renders the page again, and
\* WeatherChart reads the time anew
Tick ==
    /\ charts # NoCharts
    /\ now < FirstRender + MaxTicks * TickStep
    /\ now' = now + TickStep
    /\ charts' = Rendered(readings, lastHourReadings, now')
    /\ UNCHANGED <<lastHourReadings, queryVars, fetchVars, viewVars>>

NextChart == Sort \/ Scan \/ Return \/ Render \/ Tick

SpecChart == InitChart /\ [][NextChart]_vars

-----------------------------------------------------------------------------
(* The fetch cycles.  useWeatherData hands queryKey, queryFn, retry and    *)
(* staleTime to useQuery; the pages call refetch() and change the station. *)
(* What useQuery makes of them is @tanstack/react-query's behaviour: one   *)
(* query per query key; refetch() cancels the outstanding fetch of a query *)
(* that has data and starts a new one, and joins the outstanding fetch of  *)
(* a query that has none; a query that its last observer leaves is         *)
(* cancelled when its queryFn has read the signal; what a cancelled or     *)
(* superseded fetch settles to is ignored; a failed attempt is retried     *)
(* while failureCount < retry.  Garbage collection of unused queries and   *)
(* refetching on window focus are left out.                                *)
RELAY_URL == "wss://relay.samt.st"

\* Weather.tsx's fixed station
AUTHOR_PUBKEY == "A"

\* the stations useWeatherStations returns, in the returned order
Stations == <<"A", "B">>

\* every author useWeatherData is called with: '' while no station is known
Authors == {""} \cup {Stations[i] : i \in 1..Len(Stations)}

\* activeStationPubkey || ''
ActiveStation ==
    IF page = "Weather" THEN AUTHOR_PUBKEY
    ELSE IF selectedStation # "" THEN selectedStation
    ELSE IF stationsLoaded /\ Len(Stations) > 0 THEN Stations[1]
    ELSE ""

\* QueryKey with the author left out of the key
QueryKeyNoAuthor(authorPubkey) == <<"weatherData", RELAY_URL>>

\* queryKey: ['weatherData', relayUrl, authorPubkey]
QueryKey(authorPubkey) == <<"weatherData", RELAY_URL, authorPubkey>>

Keys == {QueryKey(a) : a \in Authors}

\* SignalFollowsCancel with the signal made of the timeout alone
SignalTimeoutOnly == FALSE

\* AbortSignal.any([c.signal, AbortSignal.timeout(5000)]) is handed to
\* relay.query: the call ends when the query is cancelled
SignalFollowsCancel == TRUE

NoData == [cycle |-> 0, station |-> ""]

\* a query that has never fetched
IdleQuery ==
    [data |-> NoData, phase |-> "idle", cycle |-> 0, author |-> "",
     failureCount |-> 0, error |-> FALSE]

\* the relay.query call of the running attempt of query k
Call(q, k) ==
    [key |-> k, station |-> q.author, cycle |-> q.cycle,
     attempt |-> q.failureCount, aborted |-> FALSE]

\* the calls in flight once the fetch of query k is cancelled: the signal
\* ends the calls that were given it
Cancelled(fl, k) ==
    {IF c.key = k /\ SignalFollowsCancel THEN [c EXCEPT !.aborted = TRUE] ELSE c :
        c \in fl}

\* the query once a new fetch cycle for authorPubkey has started
Started(q, authorPubkey) ==
    [q EXCEPT !.phase = "fetching", !.cycle = nextCycle, !.author = authorPubkey,
              !.failureCount = 0,
              !.error = IF q.data = NoData THEN FALSE ELSE @]

\* a new fetch cycle of query k starts, whatever it was doing is cancelled
StartCycle(ch, fl, k, authorPubkey) ==
    /\ nextCycle <= MaxCycles
    /\ cache' = [ch EXCEPT ![k] = Started(@, authorPubkey)]
    /\ inflight' = Cancelled(fl, k) \cup {Call(Started(ch[k], authorPubkey), k)}
    /\ nextCycle' = nextCycle + 1

\* refetch(): Query.fetch with cancelRefetch
Refetch ==
    LET k == QueryKey(ActiveStation)
    IN  IF cache[k].phase # "idle" /\ cache[k].data = NoData
        THEN UNCHANGED <<cache, inflight, nextCycle>>
        ELSE StartCycle(cache, inflight, k, ActiveStation)

\* the observer moves from the query of author old to that of author new
Moved(old, new) ==
    LET ko == QueryKey(old)
        kn == QueryKey(new)
        leave == cache[ko].phase # "idle" /\ SignalFollowsCancel
        left == IF leave
                THEN [cache EXCEPT ![ko] = [@ EXCEPT !.phase = "idle", !.failureCount = 0]]
                ELSE cache
        fl == IF leave THEN Cancelled(inflight, ko) ELSE inflight
    IN  IF ko = kn THEN UNCHANGED <<cache, inflight, nextCycle>>
        ELSE \E stale \in BOOLEAN :
                IF left[kn].phase = "idle" /\ (left[kn].data = NoData \/ stale)
                THEN StartCycle(left, fl, kn, new)
                ELSE /\ cache' = left
                     /\ inflight' = fl
                     /\ UNCHANGED nextCycle

\* the state after the first render: useQuery has started the first cycle
InitFetch ==
    /\ page \in {"Index", "Weather"}
    /\ autoRefresh = TRUE
    /\ selectedStation \in (IF page = "Index" THEN Authors ELSE {""})
    /\ stationsLoaded = FALSE
    /\ nextCycle = 2
    /\ cache = [k \in Keys |->
                  IF k = QueryKey(ActiveStation)
                  THEN [IdleQuery EXCEPT !.phase = "fetching", !.cycle = 1,
                                         !.author = ActiveStation]
                  ELSE IdleQuery]
    /\ inflight = {Call(cache[QueryKey(ActiveStation)], QueryKey(ActiveStation))}
    /\ pc = "off"
    /\ events = << >>
    /\ sorted = << >>
    /\ idx = 1
    /\ readings = << >>
    /\ flaggedReadings = << >>
    /\ seenTimestamps = {}
    /\ allSensorTypes = << >>
    /\ previousPM1 = Null
    /\ previousPM25 = Null
    /\ previousPM10 = Null
    /\ detectedSensors = NoSensors
    /\ stationMetadata = Undefined
    /\ queries = << >>
    /\ now = 0
    /\ lastHourReadings = << >>
    /\ charts = NoCharts
    /\ stationData = NoStationData
    /\ visible = NoneVisible
    /\ initialized = FALSE

\* Index.tsx 332-339, Weather.tsx 17-26: the 30-second interval
Timer ==
    /\ page = "Index" \/ (page = "Weather" /\ autoRefresh)
    /\ Refetch
    /\ UNCHANGED <<page, autoRefresh, selectedStation, stationsLoaded, queryVars, chartVars, viewVars>>

\* Weather.tsx 52-56: the button toggles autoRefresh and refetches
Button ==
    /\ page = "Weather"
    /\ autoRefresh' = ~autoRefresh
    /\ Refetch
    /\ UNCHANGED <<page, selectedStation, stationsLoaded, queryVars, chartVars, viewVars>>

\* Index.tsx 431-435: the station selector, shown for more than one station
SelectStation(s) ==
    /\ page = "Index"
    /\ stationsLoaded
    /\ Len(Stations) > 1
    /\ s # ActiveStation
    /\ selectedStation' = s
    /\ Moved(ActiveStation, s)
    /\ UNCHANGED <<page, autoRefresh, stationsLoaded, queryVars, chartVars, viewVars>>

\* Index.tsx 285-289: useWeatherStations returns the station list
StationsLoad ==
    /\ page = "Index"
    /\ ~stationsLoaded
    /\ stationsLoaded' = TRUE
    /\ Moved(ActiveStation,
             IF selectedStation # "" THEN selectedStation ELSE Stations[1])
    /\ UNCHANGED <<page, autoRefresh, selectedStation, queryVars, chartVars, viewVars>>

\* the call c is the running attempt of its query
Running(c) ==
    /\ cache[c.key].phase = "fetching"
    /\ cache[c.key].cycle = c.cycle
    /\ cache[c.key].failureCount = c.attempt

\* relay.query returns the events and the queryFn its result
Resolve(c) ==
    /\ c \in inflight
    /\ ~c.aborted
    /\ inflight' = inflight \ {c}
    /\ cache' = IF Running(c)
                THEN [cache EXCEPT ![c.key] =
                        [@ EXCEPT !.data = [cycle |-> c.cycle, station |-> c.station],
                                  !.phase = "idle", !.failureCount = 0,
                                  !.error = FALSE]]
                ELSE cache
    /\ UNCHANGED <<page, autoRefresh, selectedStation, stationsLoaded, nextCycle,
                   queryVars, chartVars, viewVars>>

\* CatchRethrows with the catch block returning an empty result
CatchReturnsEmpty == FALSE

\* useWeatherData.ts 288-291: the catch block logs the error and throws it
\* again, so that the attempt fails
CatchRethrows == TRUE

\* ShouldRetry with one more retry allowed
RetryOnceMore(failureCount) == failureCount <= RetryLimit

\* retry: 2: a failed attempt is retried while failureCount < retry
ShouldRetry(failureCount) == failureCount < RetryLimit

\* the query once the running attempt c has failed: it is retried or, the
\* retries being used up, in error with the data it had
Failed(q, c) ==
    IF ~CatchRethrows
    THEN [q EXCEPT !.data = [cycle |-> c.cycle, station |-> c.station],
                   !.phase = "idle", !.failureCount = 0, !.error = FALSE]
    ELSE IF ShouldRetry(q.failureCount)
         THEN [q EXCEPT !.phase = "retrying", !.failureCount = @ + 1]
         ELSE [q EXCEPT !.phase = "idle", !.failureCount = @ + 1, !.error = TRUE]

\* relay.query throws, the relay failing or the 5 seconds being over
Fail(c) ==
    /\ c \in inflight
    /\ ~c.aborted
    /\ inflight' = inflight \ {c}
    /\ cache' = IF Running(c)
                THEN [cache EXCEPT ![c.key] = Failed(@, c)]
                ELSE cache
    /\ UNCHANGED <<page, autoRefresh, selectedStation, stationsLoaded, nextCycle,
                   queryVars, chartVars, viewVars>>

\* TimeoutArmed with the timeout left out of the signal
TimeoutLeftOut == FALSE

\* useWeatherData.ts 143: AbortSignal.timeout(5000) is part of the signal that
\* is handed to relay.query
TimeoutArmed == TRUE

\* the 5 seconds of the attempt c are over: relay.query throws
Timeout(c) == TimeoutArmed /\ Fail(c)

\* the retry delay is over: the queryFn runs again
Retry(k) ==
    /\ cache[k].phase = "retrying"
    /\ cache' = [cache EXCEPT ![k] = [@ EXCEPT !.phase = "fetching"]]
    /\ inflight' = inflight \cup {Call([cache[k] EXCEPT !.phase = "fetching"], k)}
    /\ UNCHANGED <<page, autoRefresh, selectedStation, stationsLoaded, nextCycle,
                   queryVars, chartVars, viewVars>>

\* an aborted relay.query call throws; the fetch it belonged to is over and
\* the error is ignored
Settle(c) ==
    /\ c \in inflight
    /\ c.aborted
    /\ inflight' = inflight \ {c}
    /\ UNCHANGED <<page, autoRefresh, selectedStation, stationsLoaded, cache,
                   nextCycle, queryVars, chartVars, viewVars>>

NextFetch ==
    \/ Timer
    \/ Button
    \/ \E s \in Authors \ {""} : SelectStation(s)
    \/ StationsLoad
    \/ \E c \in inflight : Resolve(c)
    \/ \E c \in inflight : Fail(c)
    \/ \E c \in inflight : Timeout(c)
    \/ \E k \in Keys : Retry(k)
    \/ \E c \in inflight : Settle(c)

SpecFetch == InitFetch /\ [][NextFetch]_vars

\* the attempts a behaviour can make: attempt at of cycle cy
Attempts == (1..MaxCycles) \X (0..RetryLimit)

\* the relay.query call of attempt a has not settled
Pending(a) == \E c \in inflight : c.cycle = a[1] /\ c.attempt = a[2]

\* the call of attempt a ends by its signal: the timeout fires, or the call
\* throws after the abort
EndsBySignal(a) ==
    \E c \in inflight :
        /\ c.cycle = a[1]
        /\ c.attempt = a[2]
        /\ (Timeout(c) \/ Settle(c))

\* The fetch cycles with what time guarantees: the timeout of a call that is
\* still running fires, and a call whose signal is aborted throws.  That the
\* relay answers is not guaranteed.
SpecFetchLive == SpecFetch /\ \A a \in Attempts : WF_vars(EndsBySignal(a))

\* the data the page shows
Displayed == cache[QueryKey(ActiveStation)].data

\* Index.tsx 489-497: the error card is rendered when the query has an error
ErrorShown == cache[QueryKey(ActiveStation)].error

-----------------------------------------------------------------------------
(* The filters of one fetch cycle (useWeatherData.ts, lines 145-180).  A   *)
(* filter is a record of the fields that are set.                          *)
RecentLimit == 200

\* the number at which the loop over the hours ends: i < 24
HoursEnd == 24

\* lines 150-155
MetadataQuery(authorPubkey) ==
    [kinds |-> <<KIND_METADATA>>, authors |-> <<authorPubkey>>, limit |-> 1]

\* lines 157-163
RecentQuery(authorPubkey, t) ==
    [kinds |-> <<KIND_READING>>, authors |-> <<authorPubkey>>,
     since |-> t - OneHour, limit |-> RecentLimit]

\* WindowEnd with the hours counted from 0
WindowEndFromZero(t, i) == t - ((i - 1) * OneHour)

\* line 167: windowEnd
WindowEnd(t, i) == t - (i * OneHour)

\* line 168: windowStart
WindowStart(t, i) == WindowEnd(t, i) - OneHour

RECURSIVE HourlyQueries(_, _, _)
\* lines 166-177: the filters the loop pushes from hour i on
HourlyQueries(authorPubkey, t, i) ==
    IF i < HoursEnd
    THEN <<[kinds |-> <<KIND_READING>>, authors |-> <<authorPubkey>>,
            since |-> WindowStart(t, i), until |-> WindowEnd(t, i), limit |-> 1]>>
            \o HourlyQueries(authorPubkey, t, i + 1)
    ELSE << >>

\* the array queries as it is handed to relay.query
Queries(authorPubkey, t) ==
    <<MetadataQuery(authorPubkey), RecentQuery(authorPubkey, t)>>
        \o HourlyQueries(authorPubkey, t, 1)

\* the times at which the queryFn is called
QueryTimes == {FirstRender, FirstRender + TickStep}

\* The queryFn from its call on: the page is mounted and the queryFn is
\* called for the active station; relay.query returns up to MaxEvents reading
\* events.
InitQueries ==
    /\ pc = "start"
    /\ now \in QueryTimes
    /\ page \in {"Index", "Weather"}
    /\ selectedStation \in (IF page = "Index" THEN Authors ELSE {""})
    /\ stationsLoaded \in (IF page = "Index" THEN BOOLEAN ELSE {FALSE})
    /\ autoRefresh = TRUE
    /\ queries = << >>
    /\ events = << >>
    /\ sorted = << >>
    /\ idx = 1
    /\ readings = << >>
    /\ flaggedReadings = << >>
    /\ seenTimestamps = {}
    /\ allSensorTypes = << >>
    /\ previousPM1 = Null
    /\ previousPM25 = Null
    /\ previousPM10 = Null
    /\ detectedSensors = NoSensors
    /\ stationMetadata = Undefined
    /\ lastHourReadings = << >>
    /\ charts = NoCharts
    /\ stationData = NoStationData
    /\ visible = NoneVisible
    /\ initialized = FALSE
    /\ cache = << >>
    /\ inflight = {}
    /\ nextCycle = 0

\* lines 140-180: the queryFn builds the filters and hands them to
\* relay.query, which returns events
Query ==
    /\ pc = "start"
    /\ queries' = Queries(ActiveStation, now)
    /\ \E n \in 0..MaxEvents :
          \E b \in [1..n -> TagLists] :
             events' = EventList(n, [i \in 1..n |->
                           <<[kind |-> KIND_READING, tags |-> b[i]], i>>])
    /\ pc' = "fetch"
    /\ UNCHANGED <<sorted, idx, readings, flaggedReadings, seenTimestamps,
                   allSensorTypes, previousPM1, previousPM25, previousPM10,
                   detectedSensors, stationMetadata, fetchVars, chartVars, viewVars>>

NextQueries == Query \/ Sort \/ Scan \/ Return

SpecQueries == InitQueries /\ [][NextQueries]_vars

-----------------------------------------------------------------------------
(* The earlier version of the hook (useWeatherData.ts, lines 300-442): the *)
(* reading is parsed from the event's content, a string of the form        *)
(* "Weather: T=25.2C H=63.7% PM2.5=0".                                     *)
\* the characters of the class [\d.]
NumberChars == {"0", "1", "2", "3", "4", "5", "6", "7", "8", "9", "."}

\* s has the string w at position p
HasAt(s, p, w) == p + Len(w) - 1 <= Len(s) /\ SubSeq(s, p, p + Len(w) - 1) = w

RECURSIVE CharRun(_, _)
\* the longest run of characters of the class that starts at position i
CharRun(s, i) ==
    IF i <= Len(s) /\ s[i] \in NumberChars THEN <<s[i]>> \o CharRun(s, i + 1)
    ELSE << >>

\* the pattern prefix([\d.]+)suffix matches s at position p: the class is
\* matched greedily, and no shorter run is followed by the suffix, which is
\* not of the class
MatchesAt(s, p, prefix, suffix) ==
    /\ HasAt(s, p, prefix)
    /\ CharRun(s, p + Len(prefix)) # << >>
    /\ HasAt(s, p + Len(prefix) + Len(CharRun(s, p + Len(prefix))), suffix)

\* MatchGroup with the suffix left out of the pattern
MatchGroupNoSuffix(s, prefix, suffix) ==
    LET ps == {p \in 1..Len(s) : MatchesAt(s, p, prefix, << >>)}
        first == CHOOSE p \in ps : \A q \in ps : p <= q
    IN  IF ps = {} THEN Null
        ELSE [t |-> "match", group |-> CharRun(s, first + Len(prefix))]

\* content.match(/prefix([\d.]+)suffix/): null, or the match with its group,
\* that of the leftmost position at which the pattern matches
MatchGroup(s, prefix, suffix) ==
    LET ps == {p \in 1..Len(s) : MatchesAt(s, p, prefix, suffix)}
        first == CHOOSE p \in ps : \A q \in ps : p <= q
    IN  IF ps = {} THEN Null
        ELSE [t |-> "match", group |-> CharRun(s, first + Len(prefix))]

\* lines 319-338
parseWeatherContent(content) ==
    LET tempMatch == MatchGroup(content, <<"T", "=">>, <<"C">>)
        humidityMatch == MatchGroup(content, <<"H", "=">>, <<"%">>)
        pm25Match == MatchGroup(content, <<"P", "M", "2", ".", "5", "=">>, << >>)
    IN  IF tempMatch = Null \/ humidityMatch = Null \/ pm25Match = Null
        THEN Null
        ELSE [temperature |-> ParseFloat(tempMatch.group),
              humidity |-> ParseFloat(humidityMatch.group),
              pm25 |-> ParseFloat(pm25Match.group)]

\* lines 389-430: one iteration of the loop of the earlier queryFn
ScanContent(st, event) ==
    IF Seen(st.seenTimestamps, event.created_at) THEN st
    ELSE
    LET parsed == parseWeatherContent(event.content)
    IN  IF parsed = Null THEN st
        ELSE
        LET isFlagged == IsNum(parsed.pm25) /\ IsAnomaly(st.previousPM25, parsed.pm25.n)
            pm25Value == IF isFlagged THEN Num(0) ELSE parsed.pm25
        IN  [st EXCEPT
               !.readings = Append(@,
                   [temperature |-> parsed.temperature,
                    humidity |-> parsed.humidity, pm25 |-> pm25Value,
                    timestamp |-> Num(event.created_at), eventId |-> Num(event.id)]),
               !.flaggedReadings =
                   IF isFlagged
                   THEN Append(@, Flag("PM2.5", parsed.pm25.n, event))
                   ELSE @,
               !.previousPM25 =
                   IF ~isFlagged /\ IsNum(pm25Value) /\ pm25Value.n > 0
                   THEN pm25Value ELSE @,
               !.seenTimestamps = @ \cup {event.created_at}]

\* the pieces of the contents of the model
P_Weather == <<"W", "e", "a", "t", "h", "e", "r", ":", " ">>
P_T == <<"T", "=", "2", "5", ".", "2", "C">>
P_TnoNumber == <<"T", "=", "C">>
P_TnoUnit == <<"T", "=", "2", "5", ".", "2">>
P_H == <<" ", "H", "=", "6", "3", ".", "7", "%">>
P_PM0 == <<" ", "P", "M", "2", ".", "5", "=", "0">>
P_PM2 == <<" ", "P", "M", "2", ".", "5", "=", "2">>
P_PM11 == <<" ", "P", "M", "2", ".", "5", "=", "1", "1">>

\* the contents an event may have: the temperature, the humidity and the
\* PM2.5 part are each well formed, malformed or missing
Contents ==
    {P_Weather \o a \o b \o c :
        a \in {P_T, P_TnoNumber, P_TnoUnit, << >>},
        b \in {P_H, << >>},
        c \in {P_PM0, P_PM2, P_PM11, << >>}}

MaxContentEvents == 2

\* The earlier queryFn on up to MaxContentEvents events with distinct
\* timestamps, returned oldest first.
InitContent ==
    /\ \E n \in 0..MaxContentEvents :
          \E f \in [1..n -> Contents] :
             events = [i \in 1..n |->
                         [id |-> i, kind |-> KIND_READING, created_at |-> i,
                          tags |-> << >>, content |-> f[i]]]
    /\ pc = "fetch"
    /\ queries = << >>
    /\ sorted = << >>
    /\ idx = 1
    /\ readings = << >>
    /\ flaggedReadings = << >>
    /\ seenTimestamps = {}
    /\ allSensorTypes = << >>
    /\ previousPM1 = Null
    /\ previousPM25 = Null
    /\ previousPM10 = Null
    /\ detectedSensors = NoSensors
    /\ stationMetadata = Undefined
    /\ now = 0
    /\ lastHourReadings = << >>
    /\ charts = NoCharts
    /\ stationData = NoStationData
    /\ visible = NoneVisible
    /\ initialized = FALSE
    /\ page = "none"
    /\ autoRefresh = FALSE
    /\ selectedStation = ""
    /\ stationsLoaded = FALSE
    /\ cache = << >>
    /\ inflight = {}
    /\ nextCycle = 0

\* lines 381-387: the events are sorted, the loop variables declared
SortContent ==
    /\ pc = "fetch"
    /\ sorted' = SortDesc(events)
    /\ idx' = 1
    /\ readings' = << >>
    /\ flaggedReadings' = << >>
    /\ seenTimestamps' = {}
    /\ previousPM25' = Null
    /\ pc' = "scan"
    /\ UNCHANGED <<queries, events, allSensorTypes, previousPM1, previousPM10,
                   detectedSensors, stationMetadata, fetchVars, chartVars, viewVars>>

\* lines 389-430: one iteration of the loop
ScanStep ==
    /\ pc = "scan"
    /\ idx <= Len(sorted)
    /\ LET st == ScanContent(LoopVars, sorted[idx])
       IN  /\ readings' = st.readings
           /\ flaggedReadings' = st.flaggedReadings
           /\ seenTimestamps' = st.seenTimestamps
           /\ previousPM25' = st.previousPM25
    /\ idx' = idx + 1
    /\ UNCHANGED <<pc, queries, events, sorted, allSensorTypes, previousPM1,
                   previousPM10, detectedSensors, stationMetadata, fetchVars,
                   chartVars, viewVars>>

\* line 432: the result is returned
ReturnContent ==
    /\ pc = "scan"
    /\ idx > Len(sorted)
    /\ pc' = "done"
    /\ UNCHANGED <<queries, events, sorted, idx, readings, flaggedReadings,
                   seenTimestamps, allSensorTypes, previousPM1, previousPM25,
                   previousPM10, detectedSensors, stationMetadata, fetchVars,
                   chartVars, viewVars>>

NextContent == SortContent \/ ScanStep \/ ReturnContent

SpecContent == InitContent /\ [][NextContent]_vars

-----------------------------------------------------------------------------
(* The visible-sensor lists of Index (the later version of the page, in    *)
(* src/src/components/UnsupportedSensors.tsx, lines 87-775) and the        *)
(* SensorToggle of the table (src/src/components/SensorToggle.tsx, lines   *)
(* 1-97).  useQuery gives the page the data of the query of the active     *)
(* station, undefined while that query has none; useLocalStorage keeps a   *)
(* list and its setter stores the value it is given.  An effect runs after *)
(* the render that follows a change of state, before the next event is     *)
(* handled: it is part of the step that changes the state.                 *)
\* the sensor types the queryFn may have found for a station
SensorTypeLists ==
    {<< >>, <<"temp", "humidity">>, <<"pm25", "temp", "wind">>}

\* detectedSensors = data?.detectedSensors, for the data of station a
DetectedOf(data, a) == data[a]

\* lines 126-142: the effect that initializes the lists
InitializeEffect(vis, init, detected) ==
    IF detected # Undefined /\ ~init
    THEN [visible |-> [c \in Components |->
                         IF Len(vis[c]) = 0 THEN detected.supported ELSE vis[c]],
          initialized |-> TRUE]
    ELSE [visible |-> vis, initialized |-> init]

\* the state after the render and the effect that follow a change of the
\* station, the data and the lists
Rerender(station, data, vis) ==
    LET after == InitializeEffect(vis, initialized, DetectedOf(data, station))
    IN  /\ visible' = after.visible
        /\ initialized' = after.initialized
        /\ stationData' = data

\* the page is mounted: the lists and the station come from localStorage
InitView ==
    /\ page = "Index"
    /\ stationsLoaded = TRUE
    /\ selectedStation \in Authors
    /\ \E types \in SensorTypeLists :
          visible \in {NoneVisible,
                       [c \in Components |-> Categorize(types).supported]}
    /\ initialized = FALSE
    /\ stationData = NoStationData
    /\ autoRefresh = FALSE
    /\ pc = "off"
    /\ queries = << >>
    /\ events = << >>
    /\ sorted = << >>
    /\ idx = 1
    /\ readings = << >>
    /\ flaggedReadings = << >>
    /\ seenTimestamps = {}
    /\ allSensorTypes = << >>
    /\ previousPM1 = Null
    /\ previousPM25 = Null
    /\ previousPM10 = Null
    /\ detectedSensors = NoSensors
    /\ stationMetadata = Undefined
    /\ now = 0
    /\ lastHourReadings = << >>
    /\ charts = NoCharts
    /\ cache = << >>
    /\ inflight = {}
    /\ nextCycle = 0

\* the query of the active station returns a result with the sensor types
\* types
Arrive(types) ==
    /\ Rerender(ActiveStation,
                [stationData EXCEPT ![ActiveStation] = Categorize(types)],
                visible)
    /\ UNCHANGED <<queryVars, fetchVars, chartVars>>

\* lines 268, 303: the user selects the station s
SwitchStation(s) ==
    /\ s # ActiveStation
    /\ selectedStation' = s
    /\ Rerender(s, stationData, visible)
    /\ UNCHANGED <<page, autoRefresh, stationsLoaded, cache, inflight, nextCycle,
                   queryVars, chartVars>>

\* lines 549-555, 564-570, 591-597: the onToggle handler of a component,
\* given the list its closure holds
OnToggle(captured, sensor, on) ==
    IF on THEN Append(captured, sensor)
    ELSE SelectSeq(captured, LAMBDA x : x # sensor)

\* the sensors of available for which the handler is called: those not in
\* the list (All), resp. those in it (None)
Called(available, captured, on) ==
    SelectSeq(available, LAMBDA x : Includes(captured, x) # on)

\* SensorToggle.tsx 21-35: handleSelectAll (on) and handleSelectNone: onToggle
\* is called for one sensor after the other, each call storing a list built
\* from the list of the render; the list stored last is the new state
SelectEvery(available, captured, on) ==
    LET calls == Called(available, captured, on)
    IN  IF calls = << >> THEN captured
        ELSE OnToggle(captured, calls[Len(calls)], on)

\* the sensors the toggles of the page are given: detectedSensors?.supported
Available == IF DetectedOf(stationData, ActiveStation) = Undefined THEN << >>
             ELSE DetectedOf(stationData, ActiveStation).supported

\* SensorToggle.tsx 79-83, and the toggles of the two charts: the user flips
\* the checkbox of a sensor
Check(c, sensor) ==
    /\ Includes(Available, sensor)
    /\ Rerender(ActiveStation, stationData,
                [visible EXCEPT ![c] = OnToggle(@, sensor, ~Includes(@, sensor))])
    /\ UNCHANGED <<queryVars, fetchVars, chartVars>>

\* SensorToggle.tsx 21-27, 62: the user clicks "All" in the table's toggle
SelectAll ==
    /\ Len(Available) > 0
    /\ Rerender(ActiveStation, stationData,
                [visible EXCEPT !["Table"] = SelectEvery(Available, @, TRUE)])
    /\ UNCHANGED <<queryVars, fetchVars, chartVars>>

\* SensorToggle.tsx 29-35, 69: the user clicks "None" in the table's toggle
SelectNone ==
    /\ Len(Available) > 0
    /\ Rerender(ActiveStation, stationData,
                [visible EXCEPT !["Table"] = SelectEvery(Available, @, FALSE)])
    /\ UNCHANGED <<queryVars, fetchVars, chartVars>>

NextView ==
    \/ \E types \in SensorTypeLists : Arrive(types)
    \/ \E s \in Authors \ {""} : SwitchStation(s)
    \/ \E c \in Components : \E sensor \in {"temp", "humidity", "pm25"} :
          Check(c, sensor)
    \/ SelectAll
    \/ SelectNone

SpecView == InitView /\ [][NextView]_vars

-----------------------------------------------------------------------------
(* What the claims speak about.                                            *)
PMChannels == {"pm1", "pm25", "pm10"}

\* the FlaggedReading.sensor of a PM channel
SensorName(c) == CASE c = "pm1" -> "PM1" [] c = "pm25" -> "PM2.5" [] c = "pm10" -> "PM10"

\* the last valid value the scan holds for a PM channel
PrevOf(c) ==
    CASE c = "pm1" -> previousPM1 [] c = "pm25" -> previousPM25 [] c = "pm10" -> previousPM10

\* the value an event carries for a channel: that of its last tag of that
\* name with a numeric value, 0 when it has none
RawValue(event, c) ==
    LET is == {i \in 1..Len(event.tags) :
                  event.tags[i][1] = c /\ IsNum(ParseFloat(event.tags[i][2]))}
        last == CHOOSE i \in is : \A j \in is : j <= i
    IN  IF is = {} THEN 0 ELSE ParseFloat(event.tags[last][2]).n

\* the names of the tags of an event that are not ignored and carry a number
Channels(event) ==
    {event.tags[i][1] : i \in {j \in 1..Len(event.tags) :
        /\ ~Includes(IGNORED_TAGS, event.tags[j][1])
        /\ IsNum(ParseFloat(event.tags[j][2]))}}

ReadingEventIds == {i \in 1..Len(events) : events[i].kind = KIND_READING}

Timestamps == {readings[i].timestamp.n : i \in 1..Len(readings)}

\* the step is an iteration of the scan that has pushed a reading
Materialized == pc = "scan" /\ idx' = idx + 1 /\ Len(readings') = Len(readings) + 1

\* the iteration has pushed a FlaggedReading for channel c
FlaggedNow(c) ==
    \E i \in (Len(flaggedReadings) + 1)..Len(flaggedReadings') :
        flaggedReadings'[i].sensor = SensorName(c)

\* C1: the readings hold no two Readings with the same timestamp, and every
\* Reading's timestamp is the created_at of an event the query returned.
C1_UniqueTimestampsFromInput ==
    /\ \A i, j \in 1..Len(readings) :
          i # j => readings[i].timestamp # readings[j].timestamp
    /\ \A i \in 1..Len(readings) :
          \E k \in 1..Len(events) : events[k].created_at = readings[i].timestamp.n

\* C1 witness: the scan has ended on a list in which two reading events share
\* a created_at, and a Reading was produced for it.
C1_Witness ==
    /\ pc = "done"
    /\ \E a, b \in ReadingEventIds :
          /\ a # b
          /\ events[a].created_at = events[b].created_at
          /\ events[a].created_at \in Timestamps

\* C2: at every materialized reading and for every PM channel, the value v of
\* the event (0 if absent) is flagged if and only if the last valid value is
\* not null, is greater than 0 and v is greater than 5 times it.
C2_FlaggedIffSpike ==
    [][Materialized =>
         \A c \in PMChannels :
            LET v == RawValue(sorted[idx], c)
            IN  FlaggedNow(c) <=>
                   /\ PrevOf(c).t = "number"
                   /\ PrevOf(c).n > 0
                   /\ v > 5 * PrevOf(c).n]_vars

\* C2 witness: a reading whose PM1 value was flagged and whose PM2.5 value,
\* exactly 5 times the PM2.5 value before it, was not.
C2_Witness ==
    /\ pc = "done"
    /\ \E i \in 2..Len(readings) :
          /\ readings[i - 1]["pm25"].n > 0
          /\ readings[i]["pm25"].n = 5 * readings[i - 1]["pm25"].n
          /\ \E k \in 1..Len(flaggedReadings) :
                /\ flaggedReadings[k].sensor = "PM1"
                /\ flaggedReadings[k].timestamp = readings[i].timestamp.n

\* C3: the last valid value of a channel changes only at a materialized
\* reading whose value for the channel was not flagged and is greater than 0,
\* and becomes that value; a flagged value and a value that is 0, absent or
\* negative leave it unchanged.
C3_LastValidFrame ==
    [][\A c \in PMChannels :
          LET v == RawValue(sorted[idx], c)
          IN  /\ PrevOf(c)' # PrevOf(c) =>
                    /\ Materialized
                    /\ ~FlaggedNow(c)
                    /\ v > 0
                    /\ PrevOf(c)' = Num(v)
              /\ (Materialized /\ (FlaggedNow(c) \/ v <= 0)) =>
                    PrevOf(c)' = PrevOf(c)]_vars

\* C3 witness: in scan order PM2.5 was 2, then 11 (flagged, stored as 0), then
\* 10, which was compared against 2 and accepted as the last valid value.
C3_Witness ==
    /\ pc = "done"
    /\ Len(readings) = 3
    /\ readings[1]["pm25"] = Num(20)
    /\ readings[2]["pm25"] = Num(0)
    /\ readings[3]["pm25"] = Num(100)
    /\ previousPM25 = Num(100)
    /\ \E k \in 1..Len(flaggedReadings) :
          /\ flaggedReadings[k].sensor = "PM2.5"
          /\ flaggedReadings[k].value = 110
          /\ flaggedReadings[k].timestamp = readings[2].timestamp.n

\* C4: an event that contributes no parseable channel produces no Reading:
\* every Reading comes from an event with at least one parseable channel.
C4_ZeroChannelEventDiscarded ==
    \A i \in 1..Len(readings) : Channels(events[readings[i].eventId.n]) # {}

\* C5: of the reading events that share a created_at, only the one the query
\* returned first yields the Reading, and none of the others a FlaggedReading.
C5_FirstReturnedWins ==
    pc = "done" =>
       /\ \A i \in 1..Len(readings) :
             \A e \in ReadingEventIds :
                events[e].created_at = readings[i].timestamp.n
                   => readings[i].eventId.n <= e
       /\ \A k \in 1..Len(flaggedReadings) :
             \A e \in ReadingEventIds :
                events[e].created_at = flaggedReadings[k].timestamp
                   => flaggedReadings[k].eventId <= e

\* C5 witness: two reading events with different tags share a created_at, the
\* one returned first gave the Reading, and a value of the other, which the
\* scan would have flagged, is in no FlaggedReading.
C5_Witness ==
    /\ pc = "done"
    /\ \E a, b \in ReadingEventIds :
          /\ a < b
          /\ events[a].created_at = events[b].created_at
          /\ events[a].tags # events[b].tags
          /\ \E i \in 2..Len(readings) :
                /\ readings[i].eventId.n = a
                /\ readings[i - 1]["pm25"] = Num(20)
                /\ RawValue(events[b], "pm25") = 110
          /\ \A k \in 1..Len(flaggedReadings) : flaggedReadings[k].eventId # b

\* C6: the readings are sorted by timestamp, strictly descending.
C6_StrictlyDescending ==
    \A i, j \in 1..Len(readings) :
        i < j => readings[i].timestamp.n > readings[j].timestamp.n

\* C6 witness: the query returned the reading events in ascending order and
\* the scan has produced three Readings.
C6_Witness ==
    /\ pc = "done"
    /\ Len(readings) = 3
    /\ \A i, j \in ReadingEventIds : i < j => events[i].created_at < events[j].created_at

\* C7: for every FlaggedReading there is exactly one Reading with its
\* timestamp and eventId, the value of the flagged channel in that Reading is
\* 0, and the FlaggedReading holds the value the event carries.
C7_FlaggedKeepsReading ==
    \A k \in 1..Len(flaggedReadings) :
        LET f == flaggedReadings[k]
            rs == {i \in 1..Len(readings) :
                      /\ readings[i].timestamp.n = f.timestamp
                      /\ readings[i].eventId.n = f.eventId}
        IN  /\ Cardinality(rs) = 1
            /\ \A c \in PMChannels :
                  f.sensor = SensorName(c) =>
                     /\ \A i \in rs : readings[i][c] = Num(0)
                     /\ f.value = RawValue(events[f.eventId], c)

\* C7 witness: a PM1 value of 11 was flagged and the Reading of that event
\* is in the list.
C7_Witness ==
    \E k \in 1..Len(flaggedReadings) :
        /\ flaggedReadings[k].sensor = "PM1"
        /\ flaggedReadings[k].value = 110
        /\ \E i \in 1..Len(readings) :
              readings[i].eventId.n = flaggedReadings[k].eventId

\* what a result shows of channel c: per Reading its timestamp and the value
\* of c, and the FlaggedReadings of c
ChannelView(st, c) ==
    [values |-> [i \in 1..Len(st.readings) |->
                    <<st.readings[i].timestamp, st.readings[i][c]>>],
     flags |-> SelectSeq(st.flaggedReadings, LAMBDA f : f.sensor = SensorName(c))]

\* the values given to the other two PM channels of an event: none (the
\* event is kept as it is), or a value string for both
OtherValues == {<< >>, <<S_0>>, <<S_11>>}

\* the events evs with, per event i, the PM channels other than c set to
\* g[i] by tags added behind the event's own
Varied(evs, c, g) ==
    [i \in 1..Len(evs) |->
        IF g[i] = << >> THEN evs[i]
        ELSE [evs[i] EXCEPT !.tags =
                 @ \o SelectSeq(<< <<"pm1", g[i][1]>>, <<"pm25", g[i][1]>>,
                                   <<"pm10", g[i][1]>> >>,
                                LAMBDA t : t[1] # c)]]

\* C8: two event lists with the same timestamps that agree on the values of
\* one PM channel get the same flag decisions and output values for that
\* channel, whatever the values of the other two PM channels are.
C8_ChannelsIndependent ==
    pc = "done" =>
       \A c \in PMChannels :
          \A g \in [1..Len(events) -> OtherValues] :
             ChannelView(Run(Varied(events, c, g)), c) = ChannelView(LoopVars, c)

\* C8 witness: PM2.5 went 2, 11 (flagged), 10 while the PM1 value of the
\* second event, 0 in the list returned, would be flagged when it is 11.
C8_Witness ==
    /\ pc = "done"
    /\ Len(readings) = 3
    /\ readings[2]["pm25"] = Num(0)
    /\ readings[2]["pm1"] = Num(0)
    /\ \A k \in 1..Len(flaggedReadings) : flaggedReadings[k].sensor # "PM1"
    /\ \E g \in [1..Len(events) -> OtherValues] :
          \E k \in 1..Len(Run(Varied(events, "pm25", g)).flaggedReadings) :
             Run(Varied(events, "pm25", g)).flaggedReadings[k].sensor = "PM1"

\* C9: at most one query set per station is in flight at any time, also when
\* the timer or the user refetches while a fetch is outstanding.
C9_OneQuerySetInFlight ==
    \A a \in Authors :
        Cardinality({c \in inflight : c.station = a /\ ~c.aborted}) <= 1

\* C9 witness: a refetch has come while a fetch of the same station was
\* outstanding: the call of the earlier cycle is aborted and not yet settled,
\* the call of the later cycle is in flight.
C9_Witness ==
    \E c, d \in inflight :
        /\ c.station = d.station
        /\ c.cycle < d.cycle
        /\ c.aborted
        /\ ~d.aborted

\* C10: the data of a query never goes back to an earlier cycle and a call
\* that was superseded changes no data when it settles; the data shown is
\* that of a cycle of the active station.
C10_StaleResultDiscarded ==
    [][/\ \A k \in Keys : cache'[k].data.cycle >= cache[k].data.cycle
       /\ \A c \in inflight :
             (c \notin inflight' /\ (c.aborted \/ cache[c.key].cycle > c.cycle))
                => cache' = cache
       /\ Displayed' # NoData => Displayed'.station = ActiveStation']_vars

\* C10 witness: the newer cycle of a station has given the data shown while
\* the call of an earlier cycle of that station has not yet settled.
C10_Witness ==
    \E c \in inflight :
        /\ c.aborted
        /\ c.station = ActiveStation
        /\ Displayed # NoData
        /\ Displayed.cycle > c.cycle

\* C11: when an attempt of a fetch cycle fails, the data of its query stays
\* what the last successful cycle gave; when the query then is in error, the
\* page shows that data together with the error.
C11_FailureKeepsData ==
    [][\A c \in inflight :
          Fail(c) =>
             /\ cache'[c.key].data = cache[c.key].data
             /\ Displayed' = Displayed
             /\ (Running(c) /\ cache[c.key].failureCount = 2) =>
                    /\ cache'[c.key].error
                    /\ c.key = QueryKey(ActiveStation) => ErrorShown']_vars

\* C11 witness: the query of the active station is in error after a cycle
\* later than the one that gave the data shown.
C11_Witness ==
    LET q == cache[QueryKey(ActiveStation)]
    IN  /\ ErrorShown
        /\ q.phase = "idle"
        /\ Displayed # NoData
        /\ Displayed.station = ActiveStation
        /\ Displayed.cycle < q.cycle
        /\ q.failureCount = 3

\* the calls of query k that the step has started
NewCalls(k) == {d \in inflight' \ inflight : d.key = k /\ ~d.aborted}

\* C12: a cycle makes at most three attempts, each retry following a failed
\* attempt of the same cycle; a failed attempt leaves the query waiting for
\* the retry unless it was the third, which ends the cycle with the error;
\* a query whose cycle has ended has no attempt running, and a refresh of a
\* query in error starts a new cycle with a first attempt.
C12_RetriedAtMostTwice ==
    [][\A k \in Keys :
          /\ \A d \in NewCalls(k) :
                /\ d.attempt <= 2
                /\ d.attempt > 0 =>
                      /\ cache[k].phase = "retrying"
                      /\ d.cycle = cache[k].cycle
                      /\ d.attempt = cache[k].failureCount
                /\ d.attempt = 0 => d.cycle > cache[k].cycle
          /\ cache'[k].failureCount > cache[k].failureCount =>
                IF cache'[k].failureCount = 3
                THEN cache'[k].phase = "idle" /\ cache'[k].error
                ELSE cache'[k].phase = "retrying"
          /\ cache[k].phase = "idle" =>
                ~\E d \in inflight : d.key = k /\ ~d.aborted
          /\ ((Timer \/ Button) /\ k = QueryKey(ActiveStation)
                 /\ cache[k].phase = "idle" /\ cache[k].error) =>
                \E d \in NewCalls(k) : d.attempt = 0]_vars

\* C12 witness: the third attempt of a cycle has failed and left the query in
\* error, and a refresh has started the first attempt of a later cycle.
C12_Witness ==
    \E d \in inflight :
        /\ ~d.aborted
        /\ d.attempt = 0
        /\ cache[d.key].cycle = d.cycle
        /\ cache[d.key].phase = "fetching"
        /\ cache[d.key].error

\* C13: every attempt ends: the relay.query call of an attempt that is in
\* flight settles, by returning, by failing or timing out, or by throwing
\* after it was cancelled.
C13_AttemptTerminates == \A a \in Attempts : Pending(a) ~> ~Pending(a)

\* C13 witness: a call of a cycle that was cancelled and a call of the cycle
\* that replaced it are both pending: the one is ended by the abort, the
\* other, if the relay never answers, by the timeout.
C13_Witness ==
    \E c, d \in inflight :
        /\ c.aborted
        /\ ~d.aborted
        /\ d.attempt = 2
        /\ cache[d.key].phase = "fetching"

\* C14: in whatever cycle the queryFn runs, its loop ends with, and it
\* returns, what a single run from empty baselines and an empty seen set
\* gives for the events.
C14_SameOutputEveryCycle ==
    /\ (pc = "scan" /\ idx > Len(sorted)) =>
          /\ LoopVars = Run(events)
          /\ stationMetadata = MetadataOf(events)
    /\ pc = "done" =>
          [readings |-> readings, flaggedReadings |-> flaggedReadings,
           stationMetadata |-> stationMetadata,
           detectedSensors |-> detectedSensors] = Output(events)

\* C14 witness: the loop of a later cycle has ended (the sensors returned by
\* the cycle before are still the query's data) on events that gave two
\* Readings, a FlaggedReading and the station metadata.
C14_Witness ==
    /\ pc = "scan"
    /\ idx > Len(sorted)
    /\ detectedSensors.all # << >>
    /\ Len(readings) >= 2
    /\ flaggedReadings # << >>
    /\ stationMetadata # Undefined

\* the names in a list
Names(seq) == {seq[i] : i \in 1..Len(seq)}

\* C15: detectedSensors.all of the returned value holds exactly the sensor
\* types of all reading events the query returned, those of events that share
\* a timestamp with an event scanned before them included.
C15_AllIsUnionOverEvents ==
    pc = "done" =>
       Names(detectedSensors.all) = UNION {Channels(events[i]) : i \in ReadingEventIds}

\* no name occurs twice in the list
NoRepeat(seq) == \A i, j \in 1..Len(seq) : i # j => seq[i] # seq[j]

\* C16: supported and unsupported are disjoint and together hold the names
\* of all; supported holds known sensors only, unsupported none; no name
\* occurs twice in any of the three lists.
C16_SensorsPartitioned ==
    LET d == detectedSensors
    IN  /\ Names(d.supported) \cap Names(d.unsupported) = {}
        /\ Names(d.supported) \cup Names(d.unsupported) = Names(d.all)
        /\ Names(d.supported) \subseteq Names(KNOWN_SENSORS)
        /\ Names(d.unsupported) \cap Names(KNOWN_SENSORS) = {}
        /\ NoRepeat(d.supported)
        /\ NoRepeat(d.unsupported)
        /\ NoRepeat(d.all)

\* C16 witness: the returned inventory has a known and an unknown sensor, and
\* a sensor in it was reported by two of the events that gave Readings.
C16_Witness ==
    /\ pc = "done"
    /\ detectedSensors.supported # << >>
    /\ detectedSensors.unsupported # << >>
    /\ \E i, j \in 1..Len(readings) :
          /\ i # j
          /\ Channels(events[readings[i].eventId.n])
                \cap Channels(events[readings[j].eventId.n]) # {}

\* the tags of the list that are not ignored and carry a number
KeptTags(tags) ==
    {i \in 1..Len(tags) :
        ~Includes(IGNORED_TAGS, tags[i][1]) /\ IsNum(ParseFloat(tags[i][2]))}

\* the kept tags that carry a model string
ModelTags(tags) == {i \in KeptTags(tags) : Len(tags[i]) >= 3 /\ tags[i][3] # ""}

\* the last position in a set of positions
Last(is) == CHOOSE i \in is : \A j \in is : j <= i

\* the tags of the example: temp=21.4, pm25=999, pm25=999 with model PMS5003,
\* e=abc
ExampleTags ==
    << <<"temp", S_temp>>, <<"pm25", S_999>>, <<"pm25", S_999, "PMS5003">>,
       <<"e", S_abc>> >>

\* C17: for every tag list, parseWeatherTags gives the sensor types of the
\* kept tags (not ignored, value a number) and nothing of the others; a field
\* of the reading is there exactly when a kept tag writes it and holds the
\* value of the last such tag; the model of a name is there exactly when a
\* kept tag of that name has a model and is that of the last such tag; the
\* example gives temperature 21.4, pm25 999, model PMS5003 and {temp, pm25}.
C17_ParseWeatherTags ==
    /\ \A e \in ReadingEventIds :
          LET tags == events[e].tags
              p == parseWeatherTags(tags)
              kept == KeptTags(tags)
              models == Get(p.reading, "sensorModels")
          IN  /\ Names(p.sensorTypes) = {tags[i][1] : i \in kept}
              /\ DOMAIN p.reading =
                    {"sensorModels"} \cup {FieldOf(tags[i][1]) : i \in kept}
              /\ \A i \in kept :
                    p.reading[FieldOf(tags[i][1])] =
                       ParseFloat(tags[Last({j \in kept :
                                      tags[j][1] = tags[i][1]})][2])
              /\ DOMAIN models = {tags[i][1] : i \in ModelTags(tags)}
              /\ \A i \in ModelTags(tags) :
                    models[tags[i][1]] =
                       tags[Last({j \in ModelTags(tags) :
                                      tags[j][1] = tags[i][1]})][3]
              /\ (pc = "done" /\ Len(readings) = 1) =>
                    /\ Names(allSensorTypes) = Names(p.sensorTypes)
                    /\ readings[1]["sensorModels"] = models
    /\ LET p == parseWeatherTags(ExampleTags)
       IN  /\ p.reading = [temperature |-> Num(214), pm25 |-> Num(9990),
                           sensorModels |-> [pm25 |-> "PMS5003"]]
           /\ Names(p.sensorTypes) = {"temp", "pm25"}

\* C17 witness: the queryFn has run on the tags of the example.
C17_Witness ==
    /\ pc = "done"
    /\ events[1].tags = ExampleTags
    /\ Len(readings) = 1
    /\ readings[1]["temperature"] = Num(214)
    /\ readings[1]["sensorModels"] = [pm25 |-> "PMS5003"]
    /\ detectedSensors.all = <<"temp", "pm25">>

\* the Reading at position r holds, for every kept tag of its event whose
\* name is neither a known sensor nor in except, the value of the last kept
\* tag of that name under that name
UnknownKept(r, except) ==
    LET tags == events[readings[r].eventId.n].tags
        kept == KeptTags(tags)
    IN  \A i \in kept :
           (~Includes(KNOWN_SENSORS, tags[i][1]) /\ tags[i][1] \notin except) =>
              /\ tags[i][1] \in DOMAIN readings[r]
              /\ readings[r][tags[i][1]] =
                    ParseFloat(tags[Last({j \in kept : tags[j][1] = tags[i][1]})][2])

\* the fields that readings.push writes after the parsed reading is spread
\* into the object, and sensorModels, which parseWeatherTags writes last
OwnFields == {"timestamp", "eventId", "rawEvent", "sensorModels"}

\* C18: every Reading holds, for every tag of its event that is not ignored,
\* is not a known channel and carries a number, that number under the tag's
\* name.
C18_UnknownChannelKept == \A r \in 1..Len(readings) : UnknownKept(r, {})

\* what holds in place of C18: the same for the names that are not fields
\* the Reading has of its own
UnknownKeptUnlessOwnField == \A r \in 1..Len(readings) : UnknownKept(r, OwnFields)

\* typeof v
TypeOf(v) == IF v = NaN THEN "number" ELSE v.t

\* the string parseFloat is given for the elevation: the second element of
\* the first elevation tag, nothing that parses when the tag has none
ElevationString(tags) ==
    LET i == TagIndex(tags, "elevation")
    IN  IF Len(tags[i]) >= 2 THEN tags[i][2] ELSE << >>

\* the metadata events the query returned
MetadataEventIds == {i \in 1..Len(events) : events[i].kind = KIND_METADATA}

\* C19: once the queryFn has parsed the metadata event, the elevation of the
\* station metadata is absent (undefined, not a number-typed value) when the
\* event has no elevation tag or the tag's value does not parse as a number,
\* and is the parsed number, 0 for "0", when it does.
C19_ElevationAbsentUnlessParsed ==
    (pc # "fetch" /\ MetadataEventIds # {}) =>
       LET tags == events[CHOOSE e \in MetadataEventIds :
                             \A d \in MetadataEventIds : e <= d].tags
           elevation == stationMetadata.elevation
       IN  IF TagIndex(tags, "elevation") = 0
              \/ ~IsNum(ParseFloat(ElevationString(tags)))
           THEN elevation = Undefined /\ TypeOf(elevation) # "number"
           ELSE /\ elevation = ParseFloat(ElevationString(tags))
                /\ ElevationString(tags) = S_0 => elevation = Num(0)

\* what holds in place of C19: a value that does not parse gives NaN, which
\* is neither undefined nor 0
ElevationNaNWhenUnparsed ==
    (pc # "fetch" /\ MetadataEventIds # {}) =>
       LET tags == events[CHOOSE e \in MetadataEventIds :
                             \A d \in MetadataEventIds : e <= d].tags
           elevation == stationMetadata.elevation
       IN  IF TagIndex(tags, "elevation") = 0 THEN elevation = Undefined
           ELSE elevation = ParseFloat(ElevationString(tags))

\* the list has a reading within the tolerance of the time ts
HasReading(data, ts, tolerance) ==
    \E i \in 1..Len(data) : Abs(data[i].timestamp.n - ts) < tolerance

\* the chart is a grid of count slots, spacing seconds apart, oldest first
\* and the last one at the time of the render, with count entries in each
\* series and null in every slot for which data has no reading within the
\* tolerance
IsGrid(chart, data, count, spacing, tolerance) ==
    /\ chart.kind = "grid"
    /\ DOMAIN chart.timeSlots = 1..count
    /\ chart.timeSlots[count] = now
    /\ \A k \in 1..(count - 1) : chart.timeSlots[k + 1] = chart.timeSlots[k] + spacing
    /\ \A s \in Series :
          /\ DOMAIN chart.data[s] = 1..count
          /\ \A k \in 1..count :
                ~HasReading(data, chart.timeSlots[k], tolerance) =>
                   chart.data[s][k] = Null /\ chart.data[s][k] # Num(0)

\* C20 as stated: whatever list a rendered chart is given, the hourly grid
\* has 24 and the minute grid 60 entries per series, oldest slot first, the
\* last slot at now, and null where no reading is within 1800 s, resp. 30 s.
C20_GridForEveryList ==
    charts # NoCharts =>
       /\ IsGrid(charts["Last 24 Hours"], readings, 24, 3600, 1800)
       /\ IsGrid(charts["Last Hour"], lastHourReadings, 60, 60, 30)

\* C20, corrected: the same for every list that is not empty; for an empty
\* list WeatherChart renders the card without any series.
C20_GridForNonEmptyList ==
    charts # NoCharts =>
       /\ IF Len(readings) > 0
          THEN IsGrid(charts["Last 24 Hours"], readings, 24, 3600, 1800)
          ELSE charts["Last 24 Hours"] = EmptyCard
       /\ IF Len(lastHourReadings) > 0
          THEN IsGrid(charts["Last Hour"], lastHourReadings, 60, 60, 30)
          ELSE charts["Last Hour"] = EmptyCard

\* C20 witness: both grids are rendered, the page has rendered again after
\* the first time, and the minute grid has a slot with a reading and a
\* reading that is within the tolerance of no slot.
C20_Witness ==
    /\ charts # NoCharts
    /\ now > FirstRender
    /\ charts["Last 24 Hours"].kind = "grid"
    /\ charts["Last Hour"].kind = "grid"
    /\ \E k \in 1..60 :
          HasReading(lastHourReadings, charts["Last Hour"].timeSlots[k], 30)
    /\ \E i \in 1..Len(lastHourReadings) :
          \A k \in 1..60 :
             Abs(lastHourReadings[i].timestamp.n
                    - charts["Last Hour"].timeSlots[k]) >= 30

\* the grids among the charts rendered
GridTitles == {title \in Titles : charts[title].kind = "grid"}

\* every entry of the given series of every grid is a number or null
NumberOrNull(series) ==
    \A title \in GridTitles :
        \A s \in series :
            \A k \in DOMAIN charts[title].data[s] :
                LET v == charts[title].data[s][k]
                IN  IsNum(v) \/ v = Null

\* C21: every entry of every series of a grid (temperature, humidity, PM1,
\* PM2.5, PM10) is a number or null, whatever channels the readings lack.
C21_SeriesNumberOrNull == NumberOrNull(Series)

\* what holds in place of C21: the same for the three PM series
PMSeriesNumberOrNull == NumberOrNull({"pm1", "pm25", "pm10"})

\* the list the chart of a title was given
ChartData(title) == IF title = "Last Hour" THEN lastHourReadings ELSE readings

\* the tolerance of the grid of a title
Tolerance(title) == IF title = "Last Hour" THEN 30 ELSE 1800

\* the positions of the readings of the chart's list that are within the
\* tolerance of slot k
Within(title, k) ==
    {i \in 1..Len(ChartData(title)) :
        Abs(ChartData(title)[i].timestamp.n - charts[title].timeSlots[k])
           < Tolerance(title)}

\* what a chart shows of a reading in a series: the value of the channel, and
\* null for a PM value of 0
Shown(reading, s) ==
    IF s \in {"pm1", "pm25", "pm10"} /\ reading[s] = Num(0) THEN Null ELSE reading[s]

\* C22: in every slot of a grid that has a reading within the tolerance, all
\* five series show the first such reading of the list the chart was given,
\* also when a later reading of the list is nearer to the slot.
C22_FirstMatchInAllSeries ==
    \A title \in GridTitles :
        \A k \in DOMAIN charts[title].timeSlots :
            \A i \in Within(title, k) :
                (\A j \in Within(title, k) : i <= j) =>
                    \A s \in Series :
                        charts[title].data[s][k] = Shown(ChartData(title)[i], s)

\* C22 witness: a slot of a grid has two readings within the tolerance, the
\* later one of the list nearer to the slot, and a series in which the two
\* would show different values.
C22_Witness ==
    \E title \in GridTitles :
        \E k \in DOMAIN charts[title].timeSlots :
            \E i, j \in Within(title, k) :
                /\ i < j
                /\ Abs(ChartData(title)[j].timestamp.n - charts[title].timeSlots[k])
                      < Abs(ChartData(title)[i].timestamp.n - charts[title].timeSlots[k])
                /\ \E s \in Series :
                      Shown(ChartData(title)[i], s) # Shown(ChartData(title)[j], s)

\* the filters for reading events among the queries
ReadingQueries == {i \in 1..Len(queries) : queries[i].kinds = <<4223>>}

\* the filter at position i accepts an event created at time t
Accepts(i, t) ==
    /\ ("since" \in DOMAIN queries[i]) => queries[i].since <= t
    /\ ("until" \in DOMAIN queries[i]) => t <= queries[i].until

\* C23: the filters handed to relay.query are exactly a metadata filter
\* (kind 16158, the author, limit 1), a recent filter (kind 4223, the author,
\* since now - 3600, limit 200) and 23 hourly filters (kind 4223, the author,
\* limit 1), the i-th with since = now - (i+1)*3600 and until = now - i*3600;
\* each window starts where the next one ends, the oldest at now - 24 h, and
\* every hour boundary and the seconds next to it are covered.
C23_QuerySet ==
    pc # "start" =>
       /\ Len(queries) = 25
       /\ queries[1] = [kinds |-> <<16158>>, authors |-> <<ActiveStation>>,
                        limit |-> 1]
       /\ queries[2] = [kinds |-> <<4223>>, authors |-> <<ActiveStation>>,
                        since |-> now - 3600, limit |-> 200]
       /\ \A i \in 1..23 :
             queries[2 + i] = [kinds |-> <<4223>>, authors |-> <<ActiveStation>>,
                               since |-> now - (i + 1) * 3600,
                               until |-> now - i * 3600, limit |-> 1]
       /\ queries[3].until = queries[2].since
       /\ \A i \in 1..22 : queries[3 + i].until = queries[2 + i].since
       /\ queries[25].since = now - 86400
       /\ \A h \in 0..24 :
             \A d \in {-1, 0, 1} :
                LET t == now - h * 3600 + d
                IN  (now - 86400 <= t /\ t <= now) =>
                       \E i \in ReadingQueries : Accepts(i, t)

\* C23 witness: the queryFn has built the filters for a station and has run
\* on the events the relay returned.
C23_Witness ==
    /\ pc = "done"
    /\ Len(queries) = 25
    /\ queries[1].authors = <<"B">>
    /\ Len(readings) = 2

\* the string has prefix, one or more characters of digits and points, and
\* suffix, one after the other
HasPattern(s, prefix, suffix) ==
    \E p \in 1..Len(s) :
        \E n \in 1..Len(s) :
            /\ HasAt(s, p, prefix)
            /\ p + Len(prefix) + n - 1 <= Len(s)
            /\ \A k \in (p + Len(prefix))..(p + Len(prefix) + n - 1) :
                  s[k] \in NumberChars
            /\ HasAt(s, p + Len(prefix) + n, suffix)

\* the content matches T=<number>C, H=<number>% and PM2.5=<number>
HasAllThree(content) ==
    /\ HasPattern(content, <<"T", "=">>, <<"C">>)
    /\ HasPattern(content, <<"H", "=">>, <<"%">>)
    /\ HasPattern(content, <<"P", "M", "2", ".", "5", "=">>, << >>)

\* "Weather: T=25.2C H=63.7% PM2.5=0"
ExampleContent == P_Weather \o P_T \o P_H \o P_PM0

\* C24: when the earlier queryFn has returned, an event has given a Reading,
\* with temperature, humidity and pm25, if and only if its content matches all
\* three patterns; an event whose content fails one of them has given no
\* Reading and no FlaggedReading; the content of the example gives
\* temperature 25.2, humidity 63.7 and pm25 0.
C24_ContentAllOrNothing ==
    pc = "done" =>
       \A e \in 1..Len(events) :
          LET rs == {i \in 1..Len(readings) : readings[i].eventId.n = e}
          IN  /\ rs # {} <=> HasAllThree(events[e].content)
              /\ \A i \in rs :
                    {"temperature", "humidity", "pm25"} \subseteq DOMAIN readings[i]
              /\ ~HasAllThree(events[e].content) =>
                    \A k \in 1..Len(flaggedReadings) : flaggedReadings[k].eventId # e
              /\ events[e].content = ExampleContent =>
                    \A i \in rs :
                       /\ readings[i].temperature = Num(252)
                       /\ readings[i].humidity = Num(637)
                       /\ readings[i].pm25 = Num(0)

\* C24 witness: the earlier queryFn has returned for the content of the
\* example and a content without the humidity, with a Reading for the one
\* and none for the other.
C24_Witness ==
    /\ pc = "done"
    /\ Len(events) = 2
    /\ events[1].content = ExampleContent
    /\ events[2].content = P_Weather \o P_T \o P_PM11
    /\ Len(readings) = 1
    /\ readings[1].eventId = Num(1)
    /\ readings[1].temperature = Num(252)

\* the position, in the list the chart was given, of the reading a chart
\* shows in slot k: the first one within the tolerance in a grid, the k-th
\* from the end in the plain list; 0 when the slot has none
ShownReading(title, k) ==
    IF charts[title].kind = "grid"
    THEN IF Within(title, k) = {} THEN 0
         ELSE CHOOSE i \in Within(title, k) : \A j \in Within(title, k) : i <= j
    ELSE Len(ChartData(title)) + 1 - k

\* the charts that have series
SeriesTitles == {title \in Titles : charts[title].kind \in {"grid", "list"}}

\* the slots of the chart of a title that show the reading of timestamp ts
SlotsOf(title, ts) ==
    {k \in DOMAIN charts[title].timeSlots :
        /\ ShownReading(title, k) # 0
        /\ ChartData(title)[ShownReading(title, k)].timestamp.n = ts}

\* C25: in every chart, a slot of a PM series that shows a reading whose
\* value of the channel is 0 is null; so a slot that shows the reading of a
\* flagged timestamp is null, not the rejected value, in the series of the
\* flagged channel, and the rejected value is in flaggedReadings.
C25_FlaggedValueNotCharted ==
    \A title \in SeriesTitles :
        /\ \A k \in DOMAIN charts[title].timeSlots :
              \A c \in PMChannels :
                 (/\ ShownReading(title, k) # 0
                  /\ ChartData(title)[ShownReading(title, k)][c] = Num(0))
                    => charts[title].data[c][k] = Null
        /\ \A f \in 1..Len(flaggedReadings) :
              \A c \in PMChannels :
                 flaggedReadings[f].sensor = SensorName(c) =>
                    /\ flaggedReadings[f].value > 0
                    /\ \A k \in SlotsOf(title, flaggedReadings[f].timestamp) :
                          /\ charts[title].data[c][k] = Null
                          /\ charts[title].data[c][k] # Num(flaggedReadings[f].value)

\* C25 witness: a flagged PM1 value of 11 whose reading is shown in a slot of
\* the hourly grid, of the minute grid and of the plain list.
C25_Witness ==
    \E f \in 1..Len(flaggedReadings) :
        /\ flaggedReadings[f].sensor = "PM1"
        /\ flaggedReadings[f].value = 110
        /\ \A title \in Titles :
              /\ title \in SeriesTitles
              /\ SlotsOf(title, flaggedReadings[f].timestamp) # {}
        /\ charts["Last Hour"].kind = "grid"
        /\ charts["Last 24 Hours"].kind = "grid"
        /\ charts[""].kind = "list"

\* detectedSensors as the page has it
Detected == DetectedOf(stationData, ActiveStation)

\* the step gives the page the first detected sensors of the active station
FirstDetected ==
    /\ ActiveStation' = ActiveStation
    /\ Detected = Undefined
    /\ Detected' # Undefined

\* the step is not a click on a toggle: the station or the data has changed
NoClick == stationData' # stationData \/ selectedStation' # selectedStation

\* C26: the first detected sensors of a station, also of a station the user
\* has switched to, are put into every visible list that is empty; a list
\* that is empty when the station already has detected sensors is not
\* filled by later results for that station.
C26_InitializedOncePerStation ==
    [][/\ FirstDetected =>
             \A c \in Components :
                visible[c] = << >> => visible'[c] = Detected'.supported
       /\ (ActiveStation' = ActiveStation /\ Detected # Undefined /\ NoClick) =>
             \A c \in Components : visible[c] = << >> => visible'[c] = << >>]_vars

\* what holds in place of C26: the lists are initialized once per mount of
\* the page, by the first detected sensors of whatever station is active
InitializedOncePerMount ==
    [][/\ (FirstDetected /\ ~initialized) =>
             \A c \in Components :
                visible[c] = << >> => visible'[c] = Detected'.supported
       /\ (initialized /\ NoClick) => visible' = visible
       /\ initialized => initialized']_vars

\* C30: after the "All" action of the table's SensorToggle every available
\* sensor is in the visible list, and after the "None" action none is,
\* whatever was visible before.
C30_AllAndNone ==
    [][/\ SelectAll =>
             \A s \in Names(Available) : s \in Names(visible'["Table"])
       /\ SelectNone =>
             \A s \in Names(Available) : s \notin Names(visible'["Table"])]_vars

\* what holds in place of C30: "All" adds the last of the available sensors
\* that is missing and no other, "None" removes the last one that is visible
\* and no other
LastCallWins ==
    [][/\ SelectAll =>
             LET missing == Called(Available, visible["Table"], TRUE)
             IN  Names(visible'["Table"]) =
                    Names(visible["Table"]) \cup
                       (IF missing = << >> THEN {} ELSE {missing[Len(missing)]})
       /\ SelectNone =>
             LET shown == Called(Available, visible["Table"], FALSE)
             IN  Names(visible'["Table"]) =
                    Names(visible["Table"]) \
                       (IF shown = << >> THEN {} ELSE {shown[Len(shown)]})]_vars

\* the positions before i of the readings whose value of channel c is
\* greater than 0
PositiveBefore(c, i) == {j \in 1..(i - 1) : readings[j][c].n > 0}

\* C27: in the readings, in scan order, every value of a PM channel that is
\* greater than 0 is at most 5 times the nearest value of that channel before
\* it that is greater than 0, when there is one.
C27_NoSpikeInReadings ==
    \A c \in PMChannels :
        \A i \in 1..Len(readings) :
            (readings[i][c].n > 0 /\ PositiveBefore(c, i) # {}) =>
                readings[i][c].n <= 5 * readings[Last(PositiveBefore(c, i))][c].n

\* C27 witness: the scan has ended with a PM2.5 value that is exactly 5 times
\* the nearest value before it that is greater than 0, a reading whose
\* PM2.5 value was flagged and stored as 0 lying between the two.
C27_Witness ==
    /\ pc = "done"
    /\ \E i, k, j \in 1..Len(readings) :
          /\ i < k
          /\ k < j
          /\ readings[i]["pm25"].n > 0
          /\ readings[k]["pm25"] = Num(0)
          /\ readings[j]["pm25"].n = 5 * readings[i]["pm25"].n
          /\ \E f \in 1..Len(flaggedReadings) :
                /\ flaggedReadings[f].sensor = "PM2.5"
                /\ flaggedReadings[f].eventId = readings[k].eventId.n

\* the event carries a tag of channel c whose value is a number
Carries(event, c) ==
    \E i \in 1..Len(event.tags) :
        event.tags[i][1] = c /\ IsNum(ParseFloat(event.tags[i][2]))

\* the field k of the Reading that the iteration has pushed
NewField(k) ==
    LET reading == readings'[Len(readings')]
    IN  IF k \in DOMAIN reading THEN reading[k] ELSE Undefined

\* C28: every materialized Reading carries a number as pm1, pm25 and pm10,
\* which is the value parsed from the event or 0; it is 0 when the event
\* lacks the channel, when the measured value is 0 and when the value was
\* flagged as an anomaly.
C28_PMNumberOrZero ==
    [][Materialized =>
         \A c \in PMChannels :
            LET v == RawValue(sorted[idx], c)
            IN  /\ IsNum(NewField(c))
                /\ NewField(c).n \in {v, 0}
                /\ ~Carries(sorted[idx], c) => NewField(c) = Num(0)
                /\ v = 0 => NewField(c) = Num(0)
                /\ FlaggedNow(c) => NewField(c) = Num(0)]_vars

\* C28 witness: the scan has ended with a Reading of an event that has no
\* PM tag at all and whose three PM fields are 0, a Reading whose measured
\* PM1 is 0, and a Reading whose PM2.5 was flagged and stored as 0.
C28_Witness ==
    /\ pc = "done"
    /\ \E i, j \in 1..Len(readings) :
          /\ \A c \in PMChannels :
                /\ ~Carries(events[readings[i].eventId.n], c)
                /\ readings[i][c] = Num(0)
          /\ Carries(events[readings[j].eventId.n], "pm1")
          /\ RawValue(events[readings[j].eventId.n], "pm1") = 0
          /\ readings[j]["pm1"] = Num(0)
          /\ RawValue(events[readings[j].eventId.n], "pm25") > 0
          /\ readings[j]["pm25"] = Num(0)
          /\ \E f \in 1..Len(flaggedReadings) :
                /\ flaggedReadings[f].sensor = "PM2.5"
                /\ flaggedReadings[f].eventId = readings[j].eventId.n

\* the slots of the grid of a title that have reading i of the chart's list
\* within the tolerance
MatchedSlots(title, i) ==
    {k \in DOMAIN charts[title].timeSlots : i \in Within(title, k)}

\* reading i of the chart's list lies exactly the tolerance away from slot k
\* and from the slot after it
Halfway(title, i, k) ==
    /\ k + 1 \in DOMAIN charts[title].timeSlots
    /\ ChartData(title)[i].timestamp.n - charts[title].timeSlots[k] = Tolerance(title)
    /\ charts[title].timeSlots[k + 1] - ChartData(title)[i].timestamp.n
          = Tolerance(title)

\* what slot k of a series of a grid may show: null, or the value of a
\* reading that is within the tolerance of the slot
FromMatch(title, s, k) ==
    {Null} \cup {Shown(ChartData(title)[j], s) : j \in Within(title, k)}

\* C29: in both grids neighbouring slots are twice the tolerance apart, so a
\* reading is within the tolerance of at most one slot; a reading that lies
\* exactly the tolerance away from two neighbouring slots is within the
\* tolerance of none, and no slot of the grid shows it: every entry of the
\* grid is null or the value of a reading within the tolerance of its slot.
C29_AtMostOneSlot ==
    \A title \in GridTitles :
        /\ \A k \in DOMAIN charts[title].timeSlots :
              k + 1 \in DOMAIN charts[title].timeSlots =>
                 charts[title].timeSlots[k + 1] - charts[title].timeSlots[k]
                    = 2 * Tolerance(title)
        /\ \A i \in 1..Len(ChartData(title)) :
              /\ Cardinality(MatchedSlots(title, i)) <= 1
              /\ (\E k \in DOMAIN charts[title].timeSlots : Halfway(title, i, k)) =>
                    /\ MatchedSlots(title, i) = {}
                    /\ \A k \in DOMAIN charts[title].timeSlots :
                          \A s \in Series :
                             charts[title].data[s][k] \in FromMatch(title, s, k)

\* C29 witness: a grid was given a reading with a temperature that lies
\* exactly the tolerance away from two neighbouring slots, both of which are
\* null in the temperature series, and a reading that one slot shows.
C29_Witness ==
    \E title \in GridTitles :
        \E i, j \in 1..Len(ChartData(title)) :
            /\ IsNum(ChartData(title)[i]["temperature"])
            /\ \E k \in DOMAIN charts[title].timeSlots :
                  /\ Halfway(title, i, k)
                  /\ charts[title].data["temperature"][k] = Null
                  /\ charts[title].data["temperature"][k + 1] = Null
            /\ Cardinality(MatchedSlots(title, j)) = 1

====
